---- MODULE Spec2Model ----
(***************************************************************************)
(* Commit-reveal protocol of the rpsls-dapp: the browser client            *)
(* (src/src/components, src/src/utils/hashHelpers.js) driving one wagered  *)
(* round held by the settlement ledger (the RPS game contract, whose code  *)
(* is not part of src/ and is modelled from spec.md sections 3, 4 and 6).  *)
(*                                                                         *)
(* Strings are sequences of one-character strings; a hex number is kept as *)
(* its digit string, so 256-bit values need no arithmetic.                 *)
(***************************************************************************)
EXTENDS Integers, Sequences, FiniteSets, TLC

VARIABLES
    inst,       \* the GameInstance held by the ledger (spec.md section 3)
    now,        \* the host's clock, in minutes
    paid,       \* total paid out by the ledger to each party
    deposited,  \* total escrowed by the ledger from each party
    stray,      \* value each party sent to an address that holds no game
    lastCall,   \* the last call made: [op, result, sent]
    lastTx,     \* the arguments of the last call, where a specification logs them
    wallet,     \* GameJoin: the account connected in that browser
    gjAddress,  \* GameJoin: the contract address field
    gameInfo,   \* GameJoin: the snapshot loadGameInfo stored
    gsAddress,  \* GameStatus: the contract address field
    gameState,  \* GameStatus: the snapshot loadGameState stored
    fa, fb,     \* inputs of the pure functions: two moves
    fsalt,      \* input of the pure functions: a salt string
    fout,       \* results of the pure functions
    mempool,    \* the calls sent to the instance and not yet executed
    receipts,   \* the outcome of each call the ledger has executed
    gcMove,     \* GameCreation: the move selected (UI index)
    gcSalt,     \* GameCreation: the salt generated, or empty
    gcCommitment, \* GameCreation: the commitment computed, or none
    secretFile, \* the secret file last downloaded
    rpsSecret,  \* localStorage: the item rps_secret
    rpsGames,   \* localStorage: the records of the item rps_games
    grFile,     \* GameReveal: the file chosen in the file input
    grMove,     \* GameReveal: the move selected (contract code)
    grSalt      \* GameReveal: the salt field

vars == <<inst, now, paid, deposited, stray, lastCall, lastTx, wallet, gjAddress,
          gameInfo, gsAddress, gameState, fa, fb, fsalt, fout, mempool, receipts,
          gcMove, gcSalt, gcCommitment, secretFile, rpsSecret, rpsGames,
          grFile, grMove, grSalt>>

fundVars == <<inst, paid, deposited, stray>>
joinVars == <<wallet, gjAddress, gameInfo>>
statusVars == <<gsAddress, gameState>>
pureVars == <<fa, fb, fsalt, fout>>
poolVars == <<mempool, receipts>>
\* what the ledger's calls and the status, join and reveal components leave alone
creationVars == <<gcMove, gcSalt, gcCommitment>>
storageVars == <<secretFile, rpsSecret, rpsGames>>
revealVars == <<grFile, grMove, grSalt>>
formVars == <<creationVars, storageVars, revealVars>>
restVars == <<pureVars, poolVars, formVars>>

(***************************************************************************)
(* Bounds of the model                                                     *)
(***************************************************************************)
NumSalts == 2      \* how many distinct random salts generateSalt may draw
MaxStake == 2      \* stakes and paid amounts range over 0..MaxStake
MaxTime == 3       \* the clock stops advancing here
MaxTimeout == 2    \* a creator chooses timeoutInterval in 1..MaxTimeout
MaxStray == 1      \* an account stops sending astray once it has lost this much
MaxJoins == 2      \* how many joins may be sent before the ledger executes them
MaxReveals == 2    \* how many reveals may be sent before the ledger executes them

(***************************************************************************)
(* Moves (hashHelpers.js, lines 18-24) and parties                         *)
(***************************************************************************)
Null == 0
Rock == 1
Paper == 2
Scissors == 3
Spock == 4
Lizard == 5

Moves == {Rock, Paper, Scissors, Spock, Lizard}
\* what a caller may present as a move: Null, the five moves, one out of range
MoveInputs == 0..6

Parties == {"alice", "bob", "carol"}
NoParty == "none"

(***************************************************************************)
(* Strings of hex digits                                                   *)
(***************************************************************************)
HexString == <<"0", "1", "2", "3", "4", "5", "6", "7",
               "8", "9", "a", "b", "c", "d", "e", "f">>
HexChars == {HexString[i] : i \in 1..16}
Prefix0x == <<"0", "x">>

Zeros(n) == [i \in 1..n |-> "0"]

\* String.prototype.startsWith("0x")
startsWith0x(s) == Len(s) >= 2 /\ s[1] = "0" /\ s[2] = "x"

\* String.prototype.slice(2)
slice2(s) == IF Len(s) <= 2 THEN <<>> ELSE SubSeq(s, 3, Len(s))

\* String.prototype.padStart(n, "0")
padStart(s, n) == IF Len(s) >= n THEN s ELSE Zeros(n - Len(s)) \o s

IsHex(s) == \A i \in 1..Len(s) : s[i] \in HexChars

\* the digits of s from its first non-zero digit on
StripZeros(s) ==
    LET significant == {i \in 1..Len(s) : s[i] # "0"}
    IN  IF significant = {} THEN <<>>
        ELSE SubSeq(s, CHOOSE i \in significant : \A j \in significant : i <= j, Len(s))

\* BigInt("0x" + digits): the number, kept as its hex digits without leading
\* zeros (zero is the empty string); a SyntaxError for anything else.
BigIntOk(digits) == digits # <<>> /\ IsHex(digits)
BigInt(digits) == StripZeros(digits)
Zero == <<>>

\* A uint256 on the wire: 32 bytes, big-endian (64 hex digits).
FitsUint256(n) == Len(n) <= 64
Uint256Bytes(n) == padStart(n, 64)

\* A move code as one byte (2 hex digits).
Uint8Byte(m) == <<"0", HexString[m + 1]>>

\* ethers.keccak256: a collision-free digest of the bytes it is given.
keccak256(bytes) == [keccak256 |-> bytes]
NoDigest == [keccak256 |-> <<"-">>]

Ok(v) == [ok |-> TRUE, error |-> "", value |-> v]
Throw(e) == [ok |-> FALSE, error |-> e, value |-> NoDigest]

(***************************************************************************)
(* hashHelpers.js                                                          *)
(***************************************************************************)
\* ethers.randomBytes(32) then hexlify: "0x" and 64 hex digits.
generateSalt == {Prefix0x \o Zeros(63) \o <<HexString[i]>> : i \in 1..NumSalts}

\* abiCoder.encode(["uint8", "uint256"], [moveIndex, saltBigInt]): each value
\* in a 32-byte word, the uint8 left-padded with zero bytes.
abiEncode(moveIndex, saltBigInt) ==
    Zeros(62) \o Uint8Byte(moveIndex) \o Uint256Bytes(saltBigInt)

\* the salt string as createCommitment cleans it: "0x" put in front when
\* missing, then dropped, the digits padded to 64
saltCleanOf(saltHex) ==
    LET salt == IF startsWith0x(saltHex) THEN saltHex ELSE Prefix0x \o saltHex
    IN  padStart(slice2(salt), 64)

createCommitment(moveIndex, saltHex) ==
    IF moveIndex < 1 \/ moveIndex > 5 THEN Throw("InvalidMove")
    ELSE IF ~BigIntOk(saltCleanOf(saltHex)) THEN Throw("SyntaxError")
    ELSE IF ~FitsUint256(BigInt(saltCleanOf(saltHex))) THEN Throw("RangeError")
    ELSE Ok(keccak256(abiEncode(moveIndex, BigInt(saltCleanOf(saltHex)))))

uiMoveToContract(uiMove) == uiMove + 1

(***************************************************************************)
(* MoveRules (spec.md 4.1; the rules as the application states them)       *)
(***************************************************************************)
DominanceMutantLizard(a) ==
    CASE a = Rock -> {Scissors, Lizard}
      [] a = Paper -> {Rock, Spock}
      [] a = Scissors -> {Paper, Lizard}
      [] a = Spock -> {Rock, Scissors}
      [] a = Lizard -> {Paper}
      [] OTHER -> {}

DominanceMutantSpock(a) ==
    CASE a = Rock -> {Scissors, Lizard}
      [] a = Paper -> {Rock, Spock}
      [] a = Scissors -> {Paper, Lizard}
      [] a = Spock -> {Rock, Lizard}
      [] a = Lizard -> {Paper, Spock}
      [] OTHER -> {}

Dominance(a) ==
    CASE a = Rock -> {Scissors, Lizard}
      [] a = Paper -> {Rock, Spock}
      [] a = Scissors -> {Paper, Lizard}
      [] a = Spock -> {Rock, Scissors}
      [] a = Lizard -> {Paper, Spock}
      [] OTHER -> {}

isValidNonNull(x) == x \in Moves

beats(a, b) ==
    IF a = b THEN "Tie"
    ELSE IF b \in Dominance(a) THEN "FirstWins"
    ELSE "SecondWins"

(***************************************************************************)
(* CommitmentScheme as the ledger verifies it (spec.md 4.2 and 6)          *)
(***************************************************************************)
\* a secret is a uint256, given by its hex digits
commit(move, secret) ==
    IF ~isValidNonNull(move) THEN Throw("InvalidMove")
    ELSE Ok(keccak256(Uint8Byte(move) \o Uint256Bytes(secret)))

verify(move, secret, commitment) ==
    /\ commit(move, secret).ok
    /\ commit(move, secret).value = commitment

(***************************************************************************)
(* GameInstance: the state machine the ledger runs (spec.md 3 and 4.3)     *)
(***************************************************************************)
NoInstance ==
    [created |-> FALSE, firstMover |-> NoParty, secondMover |-> NoParty,
     commitment |-> NoDigest, stake |-> 0, secondMove |-> Null,
     lastActionTimestamp |-> 0, timeoutInterval |-> 0, escrow |-> 0]

\* the phase is derived from the stored fields, never stored
phaseMutantSettledLast(g) ==
    IF ~g.created THEN "NotCreated"
    ELSE IF g.secondMove # Null THEN "AwaitingReveal"
    ELSE IF g.stake = 0 THEN "Settled"
    ELSE "AwaitingSecondMove"

phaseMutantNeverSettled(g) ==
    IF ~g.created THEN "NotCreated"
    ELSE IF g.secondMove = Null THEN "AwaitingSecondMove"
    ELSE "AwaitingReveal"

phase(g) ==
    IF ~g.created THEN "NotCreated"
    ELSE IF g.stake = 0 THEN "Settled"
    ELSE IF g.secondMove = Null THEN "AwaitingSecondMove"
    ELSE "AwaitingReveal"

NoPay == [p \in Parties |-> 0]
PayTo(p, amount) == [q \in Parties |-> IF q = p THEN amount ELSE 0]

\* what a call answers: its result, the instance after it, the payout to each
\* party and the amount escrowed from the caller
Fail(g, err) == [result |-> err, inst |-> g, pay |-> NoPay, take |-> 0]

\* "Winner receives both stakes (tie returns stakes)"
WinnerPayoutMutantTie(outcome, stake) ==
    CASE outcome = "FirstWins" -> [first |-> 2 * stake, second |-> 0]
      [] outcome = "SecondWins" -> [first |-> 0, second |-> 2 * stake]
      [] OTHER -> [first |-> 2 * stake, second |-> 0]

WinnerPayoutMutantKeepsStake(outcome, stake) ==
    CASE outcome = "FirstWins" -> [first |-> 2 * stake, second |-> 0]
      [] outcome = "SecondWins" -> [first |-> 0, second |-> 2 * stake]
      [] OTHER -> [first |-> stake, second |-> 0]

WinnerPayout(outcome, stake) ==
    CASE outcome = "FirstWins" -> [first |-> 2 * stake, second |-> 0]
      [] outcome = "SecondWins" -> [first |-> 0, second |-> 2 * stake]
      [] OTHER -> [first |-> stake, second |-> stake]

timeoutElapsedMutantNonStrict(g, t) == t - g.lastActionTimestamp >= g.timeoutInterval
timeoutElapsed(g, t) == t - g.lastActionTimestamp > g.timeoutInterval

createMutantNoStakeCheck(g, firstMover, commitment, stake, timeoutInterval, secondMover, t) ==
    IF g.created THEN Fail(g, "InvalidPhase")
    ELSE IF firstMover = secondMover THEN Fail(g, "SameParty")
    ELSE [result |-> "ok",
          inst |-> [created |-> TRUE, firstMover |-> firstMover,
                    secondMover |-> secondMover, commitment |-> commitment,
                    stake |-> stake, secondMove |-> Null,
                    lastActionTimestamp |-> t,
                    timeoutInterval |-> timeoutInterval, escrow |-> stake],
          pay |-> NoPay, take |-> stake]

create(g, firstMover, commitment, stake, timeoutInterval, secondMover, t) ==
    IF g.created THEN Fail(g, "InvalidPhase")
    ELSE IF ~(stake > 0) THEN Fail(g, "InvalidStake")
    ELSE IF firstMover = secondMover THEN Fail(g, "SameParty")
    ELSE [result |-> "ok",
          inst |-> [created |-> TRUE, firstMover |-> firstMover,
                    secondMover |-> secondMover, commitment |-> commitment,
                    stake |-> stake, secondMove |-> Null,
                    lastActionTimestamp |-> t,
                    timeoutInterval |-> timeoutInterval, escrow |-> stake],
          pay |-> NoPay, take |-> stake]

joinMutantNoPlayedCheck(g, caller, move, paidStake, t) ==
    IF ~g.created THEN Fail(g, "InvalidPhase")
    ELSE IF phase(g) = "Settled" THEN Fail(g, "InvalidPhase")
    ELSE IF caller # g.secondMover THEN Fail(g, "WrongParty")
    ELSE IF paidStake # g.stake THEN Fail(g, "StakeMismatch")
    ELSE IF ~isValidNonNull(move) THEN Fail(g, "InvalidMove")
    ELSE [result |-> "ok",
          inst |-> [g EXCEPT !.secondMove = move, !.lastActionTimestamp = t,
                             !.escrow = @ + paidStake],
          pay |-> NoPay, take |-> paidStake]

\* (a second move once recorded is the first thing join finds, whoever calls
\* and whatever became of the stake: "Player 2 has already played")
join(g, caller, move, paidStake, t) ==
    IF ~g.created THEN Fail(g, "InvalidPhase")
    ELSE IF g.secondMove # Null THEN Fail(g, "AlreadyPlayed")
    ELSE IF phase(g) = "Settled" THEN Fail(g, "InvalidPhase")
    ELSE IF caller # g.secondMover THEN Fail(g, "WrongParty")
    ELSE IF paidStake # g.stake THEN Fail(g, "StakeMismatch")
    ELSE IF ~isValidNonNull(move) THEN Fail(g, "InvalidMove")
    ELSE [result |-> "ok",
          inst |-> [g EXCEPT !.secondMove = move, !.lastActionTimestamp = t,
                             !.escrow = @ + paidStake],
          pay |-> NoPay, take |-> paidStake]

revealMutantNoVerify(g, caller, move, secret) ==
    IF phase(g) # "AwaitingReveal" THEN Fail(g, "InvalidPhase")
    ELSE IF caller # g.firstMover THEN Fail(g, "WrongParty")
    ELSE IF ~isValidNonNull(move) THEN Fail(g, "InvalidMove")
    ELSE LET share == WinnerPayout(beats(move, g.secondMove), g.stake)
         IN  [result |-> "ok",
              inst |-> [g EXCEPT !.stake = 0, !.escrow = 0],
              pay |-> [p \in Parties |->
                         IF p = g.firstMover THEN share.first
                         ELSE IF p = g.secondMover THEN share.second
                         ELSE 0],
              take |-> 0]

revealMutantReopens(g, caller, move, secret) ==
    IF phase(g) # "AwaitingReveal" THEN Fail(g, "InvalidPhase")
    ELSE IF caller # g.firstMover THEN Fail(g, "WrongParty")
    ELSE IF ~isValidNonNull(move) THEN Fail(g, "InvalidMove")
    ELSE IF ~verify(move, secret, g.commitment) THEN Fail(g, "CommitmentMismatch")
    ELSE LET share == WinnerPayout(beats(move, g.secondMove), g.stake)
         IN  [result |-> "ok",
              inst |-> [g EXCEPT !.secondMove = Null, !.escrow = g.stake],
              pay |-> PayTo(g.secondMover, g.stake),
              take |-> 0]

revealMutantAnyParty(g, caller, move, secret) ==
    IF phase(g) # "AwaitingReveal" THEN Fail(g, "InvalidPhase")
    ELSE IF ~isValidNonNull(move) THEN Fail(g, "InvalidMove")
    ELSE IF ~verify(move, secret, g.commitment) THEN Fail(g, "CommitmentMismatch")
    ELSE LET share == WinnerPayout(beats(move, g.secondMove), g.stake)
         IN  [result |-> "ok",
              inst |-> [g EXCEPT !.stake = 0, !.escrow = 0],
              pay |-> [p \in Parties |->
                         IF p = g.firstMover THEN share.first
                         ELSE IF p = g.secondMover THEN share.second
                         ELSE 0],
              take |-> 0]

reveal(g, caller, move, secret) ==
    IF phase(g) # "AwaitingReveal" THEN Fail(g, "InvalidPhase")
    ELSE IF caller # g.firstMover THEN Fail(g, "WrongParty")
    ELSE IF ~isValidNonNull(move) THEN Fail(g, "InvalidMove")
    ELSE IF ~verify(move, secret, g.commitment) THEN Fail(g, "CommitmentMismatch")
    ELSE LET share == WinnerPayout(beats(move, g.secondMove), g.stake)
         IN  [result |-> "ok",
              inst |-> [g EXCEPT !.stake = 0, !.escrow = 0],
              pay |-> [p \in Parties |->
                         IF p = g.firstMover THEN share.first
                         ELSE IF p = g.secondMover THEN share.second
                         ELSE 0],
              take |-> 0]

secondMoverTimeoutClaimMutantStampsTime(g, caller, t) ==
    IF phase(g) # "AwaitingReveal" THEN Fail(g, "InvalidPhase")
    ELSE IF caller # g.secondMover THEN Fail(g, "WrongParty")
    ELSE IF ~timeoutElapsed(g, t) THEN Fail(g, "TimeoutNotElapsed")
    ELSE [result |-> "ok",
          inst |-> [g EXCEPT !.stake = 0, !.escrow = 0, !.lastActionTimestamp = t],
          pay |-> PayTo(g.secondMover, 2 * g.stake), take |-> 0]

secondMoverTimeoutClaim(g, caller, t) ==
    IF phase(g) # "AwaitingReveal" THEN Fail(g, "InvalidPhase")
    ELSE IF caller # g.secondMover THEN Fail(g, "WrongParty")
    ELSE IF ~timeoutElapsed(g, t) THEN Fail(g, "TimeoutNotElapsed")
    ELSE [result |-> "ok",
          inst |-> [g EXCEPT !.stake = 0, !.escrow = 0],
          pay |-> PayTo(g.secondMover, 2 * g.stake), take |-> 0]

firstMoverTimeoutClaimMutantAnyPhase(g, caller, t) ==
    IF phase(g) \notin {"AwaitingSecondMove", "AwaitingReveal"} THEN Fail(g, "InvalidPhase")
    ELSE IF caller # g.firstMover THEN Fail(g, "WrongParty")
    ELSE IF ~timeoutElapsed(g, t) THEN Fail(g, "TimeoutNotElapsed")
    ELSE [result |-> "ok",
          inst |-> [g EXCEPT !.stake = 0, !.escrow = 0],
          pay |-> PayTo(g.firstMover, g.stake), take |-> 0]

firstMoverTimeoutClaim(g, caller, t) ==
    IF phase(g) # "AwaitingSecondMove" THEN Fail(g, "InvalidPhase")
    ELSE IF caller # g.firstMover THEN Fail(g, "WrongParty")
    ELSE IF ~timeoutElapsed(g, t) THEN Fail(g, "TimeoutNotElapsed")
    ELSE [result |-> "ok",
          inst |-> [g EXCEPT !.stake = 0, !.escrow = 0],
          pay |-> PayTo(g.firstMover, g.stake), take |-> 0]

\* the ledger executes one call: validation and fund movement in one step
Execute(op, caller, r) ==
    /\ inst' = r.inst
    /\ paid' = [p \in Parties |-> paid[p] + r.pay[p]]
    /\ deposited' = [deposited EXCEPT ![caller] = @ + r.take]
    /\ lastCall' = [op |-> op, result |-> r.result, sent |-> TRUE]
    /\ UNCHANGED <<now, stray>>

(***************************************************************************)
(* Inputs of the calls                                                     *)
(***************************************************************************)
\* the secrets of the salts generateSalt draws, as uint256 values
SecretInputs == {BigInt(slice2(s)) : s \in generateSalt}

\* commitments a first mover may hand to create: made in the layout the
\* ledger verifies, for every move and secret, or made by createCommitment
CommitmentInputs ==
    {commit(m, x).value : m \in Moves, x \in SecretInputs}
    \cup {createCommitment(Rock, s).value : s \in generateSalt}

StakeInputs == 0..MaxStake
TimeoutInputs == 1..MaxTimeout

(***************************************************************************)
(* Calls made straight to the ledger, by any party with any arguments      *)
(***************************************************************************)
TxJoin(caller, move, paidStake) ==
    /\ inst.created
    /\ Execute("join", caller, join(inst, caller, move, paidStake, now))
    /\ UNCHANGED <<joinVars, restVars, statusVars>>

TxReveal(caller, move, secret) ==
    /\ inst.created
    /\ Execute("reveal", caller, reveal(inst, caller, move, secret))
    /\ UNCHANGED <<joinVars, restVars, statusVars>>

TxSecondMoverTimeoutClaim(caller) ==
    /\ inst.created
    /\ Execute("secondMoverTimeoutClaim", caller,
               secondMoverTimeoutClaim(inst, caller, now))
    /\ UNCHANGED <<joinVars, restVars, statusVars>>

TxFirstMoverTimeoutClaim(caller) ==
    /\ inst.created
    /\ Execute("firstMoverTimeoutClaim", caller,
               firstMoverTimeoutClaim(inst, caller, now))
    /\ UNCHANGED <<joinVars, restVars, statusVars>>

\* the host's clock advances
Tick ==
    /\ now < MaxTime
    /\ now' = now + 1
    /\ UNCHANGED <<fundVars, lastCall, lastTx, joinVars, restVars, statusVars>>

\* the arguments of a call, logged or not
NoTx == [caller |-> NoParty, move |-> Null, secret |-> Zero, value |-> 0]
Logged(caller, move, secret, value) ==
    lastTx' = [caller |-> caller, move |-> move, secret |-> secret, value |-> value]
Unlogged == UNCHANGED lastTx

(***************************************************************************)
(* The browser client                                                      *)
(***************************************************************************)
GameAddress == "0xGame"      \* the address the instance is deployed at
OtherAddress == "0xOther"    \* a well-formed address that holds no game
AddressInputs == {"", "garbage", GameAddress, OtherAddress}

\* ethers.isAddress
isAddress(a) == a \in {GameAddress, OtherAddress}

\* formatEth / parseEth: an amount of wei as a decimal string of ether and back
formatEth(wei) == <<"ether", wei>>
parseEthMutantOffByOne(ethAmount) == ethAmount[2] + 1
parseEth(ethAmount) == ethAmount[2]
\* parseEth throws "Invalid ETH amount" for anything that is no amount
parseEthOk(ethAmount) == Len(ethAmount) = 2 /\ ethAmount[1] = "ether"
\* isValidAddress: ethers.isAddress, of a contract's or a party's address
isValidAddress(address) == isAddress(address) \/ address \in Parties

\* what a user may have in the fields of GameReveal: the contract address,
\* the move and the salt. Every move is tried with every well-formed salt at
\* the game's address; the other addresses and the malformed salts are tried
\* with one move each.
SaltInputs == generateSalt \cup {<<"1">>}
BadSaltInputs == {<<>>, Prefix0x, <<"0", "x", "z">>}
RevealForms ==
    {<<GameAddress, m, s>> : m \in MoveInputs, s \in SaltInputs}
    \cup {<<GameAddress, m, s>> : m \in {Null, Rock}, s \in BadSaltInputs}
    \cup {<<a, m, s>> : a \in AddressInputs \ {GameAddress}, m \in {Null, Rock},
                        s \in {<<>>, <<"1">>}}

\* a handler that returned before sending anything
Rejected(op, err) ==
    /\ lastCall' = [op |-> op, result |-> err, sent |-> FALSE]
    /\ UNCHANGED <<fundVars, now>>

\* a transaction sent to a well-formed address that holds no game: it is
\* mined, runs no code, and its value stays at that address
SentAstray(op, caller, value) ==
    /\ lastCall' = [op |-> op, result |-> "NoContract", sent |-> TRUE]
    /\ stray' = [stray EXCEPT ![caller] = @ + value]
    /\ UNCHANGED <<inst, paid, deposited, now>>

\* the call of createCommitment by the first mover's client
CreateCommitmentCall(moveIndex, saltHex) ==
    /\ LET c == createCommitment(moveIndex, saltHex)
       IN  lastCall' = [op |-> "createCommitment",
                        result |-> IF c.ok THEN "ok" ELSE c.error,
                        sent |-> FALSE]
    /\ Logged(NoParty, moveIndex, Zero, 0)
    /\ UNCHANGED <<fundVars, now, joinVars, restVars, statusVars>>

\* GameReveal.handleReveal, for the signer and the form fields given
handleRevealMutantNoMoveCheck(signer, contractAddress, move, salt) ==
    IF contractAddress = "" \/ ~isAddress(contractAddress)
    THEN Rejected("handleReveal", "InvalidAddress") /\ lastTx' = NoTx
    ELSE IF salt = <<>> THEN Rejected("handleReveal", "NoSecret") /\ lastTx' = NoTx
    ELSE
    LET saltClean == IF startsWith0x(salt) THEN slice2(salt) ELSE salt
        saltBigInt == BigInt(saltClean)
    IN  IF ~BigIntOk(saltClean) \/ saltBigInt = Zero
        THEN Rejected("handleReveal", "InvalidSalt") /\ lastTx' = NoTx
        ELSE IF ~FitsUint256(saltBigInt)
        THEN Rejected("handleReveal", "RangeError") /\ lastTx' = NoTx
        ELSE IF contractAddress # GameAddress
        THEN SentAstray("handleReveal", signer, 0) /\ Logged(signer, move, saltBigInt, 0)
        ELSE /\ Execute("handleReveal", signer, reveal(inst, signer, move, saltBigInt))
             /\ Logged(signer, move, saltBigInt, 0)

handleReveal(signer, contractAddress, move, salt) ==
    IF contractAddress = "" \/ ~isAddress(contractAddress)
    THEN Rejected("handleReveal", "InvalidAddress") /\ lastTx' = NoTx
    ELSE IF salt = <<>> THEN Rejected("handleReveal", "NoSecret") /\ lastTx' = NoTx
    ELSE IF move < 1 \/ move > 5
    THEN Rejected("handleReveal", "InvalidMove") /\ lastTx' = NoTx
    ELSE
    LET saltClean == IF startsWith0x(salt) THEN slice2(salt) ELSE salt
        saltBigInt == BigInt(saltClean)
    IN  IF ~BigIntOk(saltClean)
        THEN Rejected("handleReveal", "InvalidSalt") /\ lastTx' = NoTx
        ELSE IF move = Null \/ move < 1 \/ move > 5
        THEN Rejected("handleReveal", "InvalidMove") /\ lastTx' = NoTx
        ELSE IF saltBigInt = Zero
        THEN Rejected("handleReveal", "InvalidSalt") /\ lastTx' = NoTx
        ELSE IF ~FitsUint256(saltBigInt)
        THEN Rejected("handleReveal", "RangeError") /\ lastTx' = NoTx
        ELSE IF contractAddress # GameAddress
        THEN SentAstray("handleReveal", signer, 0) /\ Logged(signer, move, saltBigInt, 0)
        ELSE /\ Execute("handleReveal", signer, reveal(inst, signer, move, saltBigInt))
             /\ Logged(signer, move, saltBigInt, 0)

HandleReveal(signer, contractAddress, move, salt) ==
    /\ handleReveal(signer, contractAddress, move, salt)
    /\ UNCHANGED <<joinVars, restVars, statusVars>>

(***************************************************************************)
(* The protocol specification                                              *)
(***************************************************************************)
NoCall == [op |-> "none", result |-> "none", sent |-> FALSE]
NoGameInfo == [loaded |-> FALSE]
NoGameState == [loaded |-> FALSE]

JoinIdle ==
    /\ wallet = NoParty
    /\ gjAddress = ""
    /\ gameInfo = NoGameInfo

LedgerIdle ==
    /\ inst = NoInstance
    /\ now = 0
    /\ paid = NoPay
    /\ deposited = NoPay
    /\ stray = NoPay
    /\ lastCall = NoCall
    /\ lastTx = NoTx

StatusIdle ==
    /\ gsAddress = ""
    /\ gameState = NoGameState

PureIdle ==
    /\ fa = Null
    /\ fb = Null
    /\ fsalt = <<>>
    /\ fout = [stage |-> "idle"]

PoolIdle ==
    /\ mempool = {}
    /\ receipts = {}

\* GameCreation and GameReveal as they mount, with nothing stored
NoFile == [exported |-> FALSE, json |-> FALSE]
FormIdle ==
    /\ gcMove = 0
    /\ gcSalt = <<>>
    /\ gcCommitment = NoDigest
    /\ secretFile = NoFile
    /\ rpsSecret = NoFile
    /\ rpsGames = {}
    /\ grFile = NoFile
    /\ grMove = 1
    /\ grSalt = <<>>

RestIdle ==
    /\ PureIdle
    /\ PoolIdle
    /\ FormIdle

\* The instance right after its construction by a valid create at time 0:
\* alice is the first mover, bob the second mover, carol a third party.
Constructed(commitment, stake, timeoutInterval) ==
    LET r == create(NoInstance, "alice", commitment, stake, timeoutInterval, "bob", 0)
    IN  /\ r.result = "ok"
        /\ inst = r.inst
        /\ now = 0
        /\ paid = NoPay
        /\ deposited = [NoPay EXCEPT !["alice"] = r.take]
        /\ stray = NoPay
        /\ lastCall = [op |-> "create", result |-> "ok", sent |-> TRUE]
        /\ lastTx = NoTx

Init ==
    /\ \E commitment \in CommitmentInputs, stake \in StakeInputs,
          timeoutInterval \in TimeoutInputs :
          Constructed(commitment, stake, timeoutInterval)
    /\ JoinIdle
    /\ StatusIdle
    /\ RestIdle

Next ==
    \/ Tick
    \/ \E caller \in Parties, move \in MoveInputs, paidStake \in StakeInputs :
          TxJoin(caller, move, paidStake) /\ Unlogged
    \/ \E caller \in Parties, move \in MoveInputs, secret \in SecretInputs :
          TxReveal(caller, move, secret) /\ Unlogged
    \/ \E caller \in Parties : TxSecondMoverTimeoutClaim(caller) /\ Unlogged
    \/ \E caller \in Parties : TxFirstMoverTimeoutClaim(caller) /\ Unlogged

Spec == Init /\ [][Next]_vars

(***************************************************************************)
(* The reveal specification: the first mover's client (createCommitment,   *)
(* GameReveal) against an instance of stake 1 whose second mover joins by  *)
(* a call of their own                                                     *)
(***************************************************************************)
RevealCommitments ==
    {createCommitment(m, s).value : m \in {Rock, Lizard}, s \in generateSalt}
    \cup {commit(m, x).value : m \in {Rock, Lizard}, x \in SecretInputs}

InitReveal ==
    /\ \E commitment \in RevealCommitments : Constructed(commitment, 1, 1)
    /\ JoinIdle
    /\ StatusIdle
    /\ RestIdle

\* the second mover joins with the stake, presenting one of these moves
RevealJoinMoves == {Null, Rock, Spock, 6}
\* the two parties of the instance reveal by the client; any party by a call
RevealCallers == {"alice", "bob"}

NextReveal ==
    \/ Tick
    \/ \E move \in RevealJoinMoves :
          TxJoin("bob", move, 1) /\ Logged("bob", move, Zero, 1)
    \/ \E caller \in Parties, move \in MoveInputs, secret \in SecretInputs :
          TxReveal(caller, move, secret) /\ Logged(caller, move, secret, 0)
    \/ \E signer \in RevealCallers, form \in RevealForms :
          HandleReveal(signer, form[1], form[2], form[3])
    \/ \E moveIndex \in MoveInputs, saltHex \in generateSalt :
          CreateCommitmentCall(moveIndex, saltHex)
    \/ TxJoin("alice", Rock, 1) /\ Logged("alice", Rock, Zero, 1)
    \/ \E caller \in RevealCallers :
          TxFirstMoverTimeoutClaim(caller) /\ Logged(caller, Null, Zero, 0)
    \/ \E caller \in RevealCallers :
          TxSecondMoverTimeoutClaim(caller) /\ Logged(caller, Null, Zero, 0)

SpecReveal == InitReveal /\ [][NextReveal]_vars

(***************************************************************************)
(* GameJoin (src/unnamed/part_001): the second mover's client              *)
(***************************************************************************)
\* what loadGameInfo stores for the address in the field and the connected
\* account: null for a malformed address or one that holds no game
loadGameInfo(g, contractAddress, signerAddress) ==
    IF contractAddress = "" \/ ~isAddress(contractAddress) THEN NoGameInfo
    ELSE IF contractAddress # GameAddress THEN NoGameInfo
    ELSE [loaded |-> TRUE, j1 |-> g.firstMover, j2 |-> g.secondMover,
          stake |-> formatEth(g.stake), c2 |-> g.secondMove,
          hasPlayed |-> g.secondMove # 0,
          lastAction |-> g.lastActionTimestamp,
          isJ2 |-> signerAddress = g.secondMover]

\* handleJoinGame with the move selected (UI index 0..4)
handleJoinGameMutantNegatedIsJ2(uiMove) ==
    IF gjAddress = "" \/ ~isAddress(gjAddress)
    THEN Rejected("handleJoinGame", "InvalidAddress") /\ lastTx' = NoTx
         /\ UNCHANGED gameInfo
    ELSE IF ~gameInfo.loaded
    THEN Rejected("handleJoinGame", "NotLoaded") /\ lastTx' = NoTx
         /\ UNCHANGED gameInfo
    ELSE IF gameInfo.hasPlayed
    THEN Rejected("handleJoinGame", "AlreadyPlayed")
         /\ Logged(wallet, uiMoveToContract(uiMove), Zero, 0)
         /\ UNCHANGED gameInfo
    ELSE IF gameInfo.isJ2
    THEN Rejected("handleJoinGame", "WrongParty")
         /\ Logged(wallet, uiMoveToContract(uiMove), Zero, 0)
         /\ UNCHANGED gameInfo
    ELSE
    LET contractMove == uiMoveToContract(uiMove)
        stakeAmount == parseEth(gameInfo.stake)
        r == join(inst, wallet, contractMove, stakeAmount, now)
    IN  IF gjAddress # GameAddress
        THEN /\ SentAstray("handleJoinGame", wallet, stakeAmount)
             /\ Logged(wallet, contractMove, Zero, stakeAmount)
             /\ gameInfo' = loadGameInfo(inst, gjAddress, wallet)
        ELSE /\ Execute("handleJoinGame", wallet, r)
             /\ Logged(wallet, contractMove, Zero, stakeAmount)
             /\ gameInfo' = IF r.result = "ok"
                            THEN loadGameInfo(r.inst, gjAddress, wallet)
                            ELSE gameInfo

handleJoinGameMutantNoHasPlayedCheck(uiMove) ==
    IF gjAddress = "" \/ ~isAddress(gjAddress)
    THEN Rejected("handleJoinGame", "InvalidAddress") /\ lastTx' = NoTx
         /\ UNCHANGED gameInfo
    ELSE IF ~gameInfo.loaded
    THEN Rejected("handleJoinGame", "NotLoaded") /\ lastTx' = NoTx
         /\ UNCHANGED gameInfo
    ELSE IF ~gameInfo.isJ2
    THEN Rejected("handleJoinGame", "WrongParty")
         /\ Logged(wallet, uiMoveToContract(uiMove), Zero, 0)
         /\ UNCHANGED gameInfo
    ELSE
    LET contractMove == uiMoveToContract(uiMove)
        stakeAmount == parseEth(gameInfo.stake)
        r == join(inst, wallet, contractMove, stakeAmount, now)
    IN  IF gjAddress # GameAddress
        THEN /\ SentAstray("handleJoinGame", wallet, stakeAmount)
             /\ Logged(wallet, contractMove, Zero, stakeAmount)
             /\ gameInfo' = loadGameInfo(inst, gjAddress, wallet)
        ELSE /\ Execute("handleJoinGame", wallet, r)
             /\ Logged(wallet, contractMove, Zero, stakeAmount)
             /\ gameInfo' = IF r.result = "ok"
                            THEN loadGameInfo(r.inst, gjAddress, wallet)
                            ELSE gameInfo

handleJoinGame(uiMove) ==
    IF gjAddress = "" \/ ~isAddress(gjAddress)
    THEN Rejected("handleJoinGame", "InvalidAddress") /\ lastTx' = NoTx
         /\ UNCHANGED gameInfo
    ELSE IF ~gameInfo.loaded
    THEN Rejected("handleJoinGame", "NotLoaded") /\ lastTx' = NoTx
         /\ UNCHANGED gameInfo
    ELSE IF gameInfo.hasPlayed
    THEN Rejected("handleJoinGame", "AlreadyPlayed")
         /\ Logged(wallet, uiMoveToContract(uiMove), Zero, 0)
         /\ UNCHANGED gameInfo
    ELSE IF ~gameInfo.isJ2
    THEN Rejected("handleJoinGame", "WrongParty")
         /\ Logged(wallet, uiMoveToContract(uiMove), Zero, 0)
         /\ UNCHANGED gameInfo
    ELSE
    LET contractMove == uiMoveToContract(uiMove)
        stakeAmount == parseEth(gameInfo.stake)
        r == join(inst, wallet, contractMove, stakeAmount, now)
    IN  IF gjAddress # GameAddress
        THEN /\ SentAstray("handleJoinGame", wallet, stakeAmount)
             /\ Logged(wallet, contractMove, Zero, stakeAmount)
             /\ gameInfo' = loadGameInfo(inst, gjAddress, wallet)
        ELSE /\ Execute("handleJoinGame", wallet, r)
             /\ Logged(wallet, contractMove, Zero, stakeAmount)
             /\ gameInfo' = IF r.result = "ok"
                            THEN loadGameInfo(r.inst, gjAddress, wallet)
                            ELSE gameInfo

\* the moves of the select of GameJoin
UiMoves == 0..4

\* (an account runs out of funds: it sends astray while it has lost less
\* than MaxStray)
HandleJoinGame(uiMove) ==
    /\ gjAddress = OtherAddress => stray[wallet] < MaxStray
    /\ handleJoinGame(uiMove)
    /\ UNCHANGED <<wallet, gjAddress, restVars, statusVars>>

\* the "Load Game Info" button
LoadGameInfo ==
    /\ gameInfo' = loadGameInfo(inst, gjAddress, wallet)
    /\ UNCHANGED <<fundVars, now, lastCall, lastTx, wallet, gjAddress, restVars, statusVars>>

\* typing in the address field
SetContractAddress(a) ==
    /\ gjAddress' = a
    /\ UNCHANGED <<fundVars, now, lastCall, lastTx, wallet, gameInfo, restVars, statusVars>>

\* WalletConnect: accountsChanged reloads the page, which empties the form
AccountsChanged(account) ==
    /\ account # wallet
    /\ wallet' = account
    /\ gjAddress' = ""
    /\ gameInfo' = NoGameInfo
    /\ gsAddress' = ""
    /\ gameState' = NoGameState
    /\ UNCHANGED <<fundVars, now, lastCall, lastTx, restVars>>

(***************************************************************************)
(* The join specification: GameJoin in the browser of any party, beside    *)
(* calls made straight to the instance                                     *)
(***************************************************************************)
JoinCommitment == commit(Rock, <<"1">>).value

InitJoin ==
    /\ \E stake \in StakeInputs : Constructed(JoinCommitment, stake, 1)
    /\ wallet \in Parties
    /\ gjAddress = ""
    /\ gameInfo = NoGameInfo
    /\ StatusIdle
    /\ RestIdle

JoinAddresses == {"garbage", GameAddress, OtherAddress}
JoinCallers == {"bob", "carol"}
JoinMoves == {Null, Scissors, 6}

NextJoin ==
    \/ Tick
    \/ \E account \in Parties : AccountsChanged(account)
    \/ \E a \in JoinAddresses : SetContractAddress(a)
    \/ LoadGameInfo
    \/ \E uiMove \in UiMoves : HandleJoinGame(uiMove)
    \/ \E caller \in JoinCallers, move \in JoinMoves, paidStake \in StakeInputs :
          TxJoin(caller, move, paidStake) /\ Logged(caller, move, Zero, paidStake)
    \/ TxFirstMoverTimeoutClaim("alice") /\ lastTx' = NoTx
    \/ TxSecondMoverTimeoutClaim("bob") /\ lastTx' = NoTx

SpecJoin == InitJoin /\ [][NextJoin]_vars

(***************************************************************************)
(* GameStatus (src/src/components/GameStatus.jsx): status and timeouts     *)
(***************************************************************************)
\* what loadGameState stores, read at time t by the account connected; the
\* fields kept for display only (c1Hash, c2Name, the dates) are left out.
\* The contract's j2Timeout is the claim of the first mover (the second
\* mover never joined), its j1Timeout the claim of the second mover.
gameStateOfMutantSwappedFunctions(g, signerAddress, t) ==
    LET isTimedOut == timeoutElapsed(g, t)
    IN  [loaded |-> TRUE, j1 |-> g.firstMover, j2 |-> g.secondMover,
         c1Hash |-> g.commitment,
         c2 |-> g.secondMove, stake |-> formatEth(g.stake), stakeWei |-> g.stake,
         lastAction |-> g.lastActionTimestamp, timeout |-> g.timeoutInterval,
         isTimedOut |-> isTimedOut,
         canTimeout |-> g.stake # 0 /\ isTimedOut,
         timeoutFunction |->
             IF g.stake = 0 \/ ~isTimedOut THEN "null"
             ELSE IF g.secondMove = 0 THEN "j1Timeout" ELSE "j2Timeout",
         phase |-> IF g.stake = 0 THEN "Game Completed (stake withdrawn)"
                   ELSE IF g.secondMove = 0 THEN "Waiting for Player 2 to join"
                   ELSE "Player 2 joined, waiting for Player 1 to reveal",
         isJ1 |-> signerAddress = g.firstMover,
         isJ2 |-> signerAddress = g.secondMover]

gameStateOfMutantMoveFirst(g, signerAddress, t) ==
    LET isTimedOut == timeoutElapsed(g, t)
    IN  [loaded |-> TRUE, j1 |-> g.firstMover, j2 |-> g.secondMover,
         c1Hash |-> g.commitment,
         c2 |-> g.secondMove, stake |-> formatEth(g.stake), stakeWei |-> g.stake,
         lastAction |-> g.lastActionTimestamp, timeout |-> g.timeoutInterval,
         isTimedOut |-> isTimedOut,
         canTimeout |-> g.stake # 0 /\ isTimedOut,
         timeoutFunction |->
             IF g.stake = 0 \/ ~isTimedOut THEN "null"
             ELSE IF g.secondMove = 0 THEN "j2Timeout" ELSE "j1Timeout",
         phase |-> IF g.secondMove = 0 THEN "Waiting for Player 2 to join"
                   ELSE IF g.stake = 0 THEN "Game Completed (stake withdrawn)"
                   ELSE "Player 2 joined, waiting for Player 1 to reveal",
         isJ1 |-> signerAddress = g.firstMover,
         isJ2 |-> signerAddress = g.secondMover]

gameStateOf(g, signerAddress, t) ==
    LET isTimedOut == timeoutElapsed(g, t)
    IN  [loaded |-> TRUE, j1 |-> g.firstMover, j2 |-> g.secondMover,
         c1Hash |-> g.commitment,
         c2 |-> g.secondMove, stake |-> formatEth(g.stake), stakeWei |-> g.stake,
         lastAction |-> g.lastActionTimestamp, timeout |-> g.timeoutInterval,
         isTimedOut |-> isTimedOut,
         canTimeout |-> g.stake # 0 /\ isTimedOut,
         timeoutFunction |->
             IF g.stake = 0 \/ ~isTimedOut THEN "null"
             ELSE IF g.secondMove = 0 THEN "j2Timeout" ELSE "j1Timeout",
         phase |-> IF g.stake = 0 THEN "Game Completed (stake withdrawn)"
                   ELSE IF g.secondMove = 0 THEN "Waiting for Player 2 to join"
                   ELSE "Player 2 joined, waiting for Player 1 to reveal",
         isJ1 |-> signerAddress = g.firstMover,
         isJ2 |-> signerAddress = g.secondMover]

\* loadGameState: an alert for a malformed address, null for an address that
\* holds no game
loadGameState(g, contractAddress, signerAddress, t, old) ==
    IF contractAddress = "" \/ ~isAddress(contractAddress) THEN old
    ELSE IF contractAddress # GameAddress \/ ~g.created THEN NoGameState
    ELSE gameStateOf(g, signerAddress, t)

\* callTimeout: the claim the snapshot names, sent by the account connected
\* to the address in the field
SendTimeout(op, r) ==
    IF ~isAddress(gsAddress)
    THEN Rejected(op, "InvalidAddress") /\ UNCHANGED gameState
    ELSE IF gsAddress # GameAddress
    THEN /\ SentAstray(op, wallet, 0)
         /\ gameState' = loadGameState(inst, gsAddress, wallet, now, gameState)
    ELSE /\ Execute(op, wallet, r)
         /\ gameState' = IF r.result = "ok"
                         THEN loadGameState(r.inst, gsAddress, wallet, now, gameState)
                         ELSE gameState

callTimeoutMutantNoJ2Check ==
    /\ Logged(wallet, Null, Zero, 0)
    /\ IF ~gameState.loaded \/ ~gameState.canTimeout
       THEN Rejected("callTimeout", "CannotTimeout") /\ UNCHANGED gameState
       ELSE IF gameState.timeoutFunction = "j1Timeout"
       THEN SendTimeout("callTimeout.j1Timeout",
                        secondMoverTimeoutClaim(inst, wallet, now))
       ELSE IF ~gameState.isJ1
            THEN Rejected("callTimeout.j2Timeout", "WrongParty") /\ UNCHANGED gameState
            ELSE SendTimeout("callTimeout.j2Timeout",
                             firstMoverTimeoutClaim(inst, wallet, now))

callTimeoutMutantSwappedParties ==
    /\ Logged(wallet, Null, Zero, 0)
    /\ IF ~gameState.loaded \/ ~gameState.canTimeout
       THEN Rejected("callTimeout", "CannotTimeout") /\ UNCHANGED gameState
       ELSE IF gameState.timeoutFunction = "j1Timeout"
       THEN IF ~gameState.isJ1
            THEN Rejected("callTimeout.j1Timeout", "WrongParty") /\ UNCHANGED gameState
            ELSE SendTimeout("callTimeout.j1Timeout",
                             secondMoverTimeoutClaim(inst, wallet, now))
       ELSE IF ~gameState.isJ2
            THEN Rejected("callTimeout.j2Timeout", "WrongParty") /\ UNCHANGED gameState
            ELSE SendTimeout("callTimeout.j2Timeout",
                             firstMoverTimeoutClaim(inst, wallet, now))

callTimeoutMutantNegatedCanTimeout ==
    /\ Logged(wallet, Null, Zero, 0)
    /\ IF ~gameState.loaded \/ gameState.canTimeout
       THEN Rejected("callTimeout", "CannotTimeout") /\ UNCHANGED gameState
       ELSE IF gameState.timeoutFunction = "j1Timeout"
       THEN IF ~gameState.isJ2
            THEN Rejected("callTimeout.j1Timeout", "WrongParty") /\ UNCHANGED gameState
            ELSE SendTimeout("callTimeout.j1Timeout",
                             secondMoverTimeoutClaim(inst, wallet, now))
       ELSE IF ~gameState.isJ1
            THEN Rejected("callTimeout.j2Timeout", "WrongParty") /\ UNCHANGED gameState
            ELSE SendTimeout("callTimeout.j2Timeout",
                             firstMoverTimeoutClaim(inst, wallet, now))

callTimeout ==
    /\ Logged(wallet, Null, Zero, 0)
    /\ IF ~gameState.loaded \/ ~gameState.canTimeout
       THEN Rejected("callTimeout", "CannotTimeout") /\ UNCHANGED gameState
       ELSE IF gameState.timeoutFunction = "j1Timeout"
       THEN IF ~gameState.isJ2
            THEN Rejected("callTimeout.j1Timeout", "WrongParty") /\ UNCHANGED gameState
            ELSE SendTimeout("callTimeout.j1Timeout",
                             secondMoverTimeoutClaim(inst, wallet, now))
       ELSE IF ~gameState.isJ1
            THEN Rejected("callTimeout.j2Timeout", "WrongParty") /\ UNCHANGED gameState
            ELSE SendTimeout("callTimeout.j2Timeout",
                             firstMoverTimeoutClaim(inst, wallet, now))

CallTimeout ==
    /\ callTimeout
    /\ UNCHANGED <<joinVars, gsAddress, restVars>>

\* the "Load Game State" button
LoadGameState ==
    /\ gameState' = loadGameState(inst, gsAddress, wallet, now, gameState)
    /\ UNCHANGED <<fundVars, now, lastCall, lastTx, joinVars, gsAddress, restVars>>

\* typing in the address field of GameStatus
SetStatusAddress(a) ==
    /\ gsAddress' = a
    /\ UNCHANGED <<fundVars, now, lastCall, lastTx, joinVars, gameState, restVars>>

(***************************************************************************)
(* The status specification: GameStatus in the browser of any party,       *)
(* beside joins and timeout claims made straight to the instance           *)
(***************************************************************************)
InitStatus ==
    /\ \E stake \in StakeInputs, timeoutInterval \in TimeoutInputs :
          Constructed(JoinCommitment, stake, timeoutInterval)
    /\ wallet \in Parties
    /\ gjAddress = ""
    /\ gameInfo = NoGameInfo
    /\ StatusIdle
    /\ RestIdle

StatusAddresses == {GameAddress, OtherAddress}

NextStatus ==
    \/ Tick
    \/ \E account \in Parties : AccountsChanged(account)
    \/ \E a \in StatusAddresses : SetStatusAddress(a)
    \/ LoadGameState
    \/ CallTimeout
    \/ TxJoin("bob", Scissors, inst.stake) /\ Logged("bob", Scissors, Zero, inst.stake)
    \/ \E caller \in Parties :
          TxFirstMoverTimeoutClaim(caller) /\ Logged(caller, Null, Zero, 0)
    \/ \E caller \in Parties :
          TxSecondMoverTimeoutClaim(caller) /\ Logged(caller, Null, Zero, 0)

SpecStatus == InitStatus /\ [][NextStatus]_vars

(***************************************************************************)
(* The stall specification: GameStatus in the browser of a party that      *)
(* waits for the other, who joins or not and never reveals.  The clock     *)
(* advances, and the waiting party keeps loading the state and claiming    *)
(***************************************************************************)
\* the intervals whose deadline the clock of the model can pass
StallIntervals == {i \in TimeoutInputs : i < MaxTime}

InitStall ==
    /\ \E stake \in StakeInputs, timeoutInterval \in StallIntervals :
          Constructed(JoinCommitment, stake, timeoutInterval)
    /\ wallet \in {"alice", "bob"}
    /\ gjAddress = ""
    /\ gameInfo = NoGameInfo
    /\ gsAddress = GameAddress
    /\ gameState = NoGameState
    /\ RestIdle

\* the second mover joins while the clock can still pass the new deadline
JoinInTime ==
    /\ now + inst.timeoutInterval < MaxTime
    /\ TxJoin("bob", Scissors, inst.stake)
    /\ Logged("bob", Scissors, Zero, inst.stake)

NextStall ==
    \/ Tick
    \/ LoadGameState
    \/ CallTimeout
    \/ JoinInTime
    \/ \E caller \in Parties :
          TxFirstMoverTimeoutClaim(caller) /\ Logged(caller, Null, Zero, 0)
    \/ \E caller \in Parties :
          TxSecondMoverTimeoutClaim(caller) /\ Logged(caller, Null, Zero, 0)

SpecStall ==
    /\ InitStall /\ [][NextStall]_vars
    /\ WF_vars(Tick)
    /\ WF_vars(LoadGameState)
    /\ WF_vars(CallTimeout)

(***************************************************************************)
(* Calls in flight: handleJoinGame and handleReveal await the ledger after *)
(* sending, so several calls may be sent before the first is executed; the *)
(* ledger executes them one at a time, in any order                        *)
(***************************************************************************)
\* the next call sent is numbered after those sent so far
NextId == Cardinality(mempool) + Cardinality(receipts) + 1
SentSoFar(op) ==
    Cardinality({t \in mempool : t.op = op}) + Cardinality({r \in receipts : r.op = op})

\* handleJoinGame up to the call of play: the rejection it alerts, or the
\* transaction it sends
joinRequest(uiMove) ==
    IF gjAddress = "" \/ ~isAddress(gjAddress) THEN [send |-> FALSE, error |-> "InvalidAddress"]
    ELSE IF ~gameInfo.loaded THEN [send |-> FALSE, error |-> "NotLoaded"]
    ELSE IF gameInfo.hasPlayed THEN [send |-> FALSE, error |-> "AlreadyPlayed"]
    ELSE IF ~gameInfo.isJ2 THEN [send |-> FALSE, error |-> "WrongParty"]
    ELSE [send |-> TRUE,
          tx |-> [op |-> "handleJoinGame", to |-> gjAddress, caller |-> wallet,
                  move |-> uiMoveToContract(uiMove), secret |-> Zero,
                  value |-> parseEth(gameInfo.stake)]]

\* handleReveal up to the call of solve
revealRequest(signer, contractAddress, move, salt) ==
    IF contractAddress = "" \/ ~isAddress(contractAddress)
    THEN [send |-> FALSE, error |-> "InvalidAddress"]
    ELSE IF salt = <<>> THEN [send |-> FALSE, error |-> "NoSecret"]
    ELSE IF move < 1 \/ move > 5 THEN [send |-> FALSE, error |-> "InvalidMove"]
    ELSE
    LET saltClean == IF startsWith0x(salt) THEN slice2(salt) ELSE salt
        saltBigInt == BigInt(saltClean)
    IN  IF ~BigIntOk(saltClean) THEN [send |-> FALSE, error |-> "InvalidSalt"]
        ELSE IF saltBigInt = Zero THEN [send |-> FALSE, error |-> "InvalidSalt"]
        ELSE IF ~FitsUint256(saltBigInt) THEN [send |-> FALSE, error |-> "RangeError"]
        ELSE [send |-> TRUE,
              tx |-> [op |-> "handleReveal", to |-> contractAddress, caller |-> signer,
                      move |-> move, secret |-> saltBigInt, value |-> 0]]

\* a request is alerted, or sent and left in flight; seen is the phase of the
\* instance when the call was sent
Submit(op, request) ==
    IF ~request.send
    THEN /\ Rejected(op, request.error) /\ lastTx' = NoTx
         /\ UNCHANGED poolVars
    ELSE /\ mempool' = mempool \cup
               {[id |-> NextId, seen |-> phase(inst), tx |-> request.tx, op |-> op]}
         /\ UNCHANGED <<fundVars, now, lastCall, lastTx, receipts>>

SubmitJoin(uiMove) ==
    /\ SentSoFar("handleJoinGame") < MaxJoins
    /\ gjAddress = GameAddress
    /\ Submit("handleJoinGame", joinRequest(uiMove))
    /\ UNCHANGED <<joinVars, pureVars, formVars, statusVars>>

SubmitReveal(signer, contractAddress, move, salt) ==
    /\ SentSoFar("handleReveal") < MaxReveals
    /\ contractAddress = GameAddress
    /\ Submit("handleReveal", revealRequest(signer, contractAddress, move, salt))
    /\ UNCHANGED <<joinVars, pureVars, formVars, statusVars>>

\* the ledger executes a call in flight; the handler that sent it goes on
\* from its await (a join that succeeded reloads the game info)
Mine(t) ==
    LET r == IF t.op = "handleJoinGame"
             THEN join(inst, t.tx.caller, t.tx.move, t.tx.value, now)
             ELSE reveal(inst, t.tx.caller, t.tx.move, t.tx.secret)
    IN  /\ Execute(t.op, t.tx.caller, r)
        /\ Logged(t.tx.caller, t.tx.move, t.tx.secret, t.tx.value)
        /\ mempool' = mempool \ {t}
        /\ receipts' = receipts \cup
               {[id |-> t.id, op |-> t.op, seen |-> t.seen, result |-> r.result,
                 opens |-> verify(t.tx.move, t.tx.secret, inst.commitment)]}
        /\ gameInfo' = IF t.op = "handleJoinGame" /\ r.result = "ok"
                       THEN loadGameInfo(r.inst, gjAddress, wallet)
                       ELSE gameInfo
        /\ UNCHANGED <<wallet, gjAddress, pureVars, formVars, statusVars>>

(***************************************************************************)
(* The race specification: the second mover's GameJoin and the first       *)
(* mover's GameReveal send calls that the ledger executes in any order     *)
(***************************************************************************)
InitRace ==
    /\ Constructed(JoinCommitment, 1, 1)
    /\ wallet = "bob"
    /\ gjAddress = GameAddress
    /\ gameInfo = NoGameInfo
    /\ StatusIdle
    /\ RestIdle

RaceMoves == {Rock, Paper}
RaceSalts == {<<"1">>}

NextRace ==
    \/ Tick
    \/ LoadGameInfo
    \/ \E uiMove \in {0, 1} : SubmitJoin(uiMove)
    \/ \E move \in RaceMoves, salt \in RaceSalts :
          SubmitReveal("alice", GameAddress, move, salt)
    \/ \E t \in mempool : Mine(t)

SpecRace == InitRace /\ [][NextRace]_vars

(***************************************************************************)
(* GameCreation (src/src/components/GameCreation.jsx): the first mover's   *)
(* client deploys the instance                                             *)
(***************************************************************************)
\* the arguments of a create, logged with the opponent named
LoggedCreate(caller, opponent, value) ==
    lastTx' = [caller |-> caller, move |-> Null, secret |-> Zero, value |-> value,
               opponent |-> opponent]

\* create called at the ledger by a deployment made without the client
TxCreate(caller, commitment, stake, timeoutInterval, opponent) ==
    /\ ~inst.created
    /\ Execute("create", caller,
               create(inst, caller, commitment, stake, timeoutInterval, opponent, now))
    /\ LoggedCreate(caller, opponent, stake)
    /\ UNCHANGED <<joinVars, restVars, statusVars>>

\* handleCreateGame for the form fields given; timeoutInterval is the
\* interval the deployed code fixes
handleCreateGameMutantNoSelfCheck(opponent, stake, commitment, timeoutInterval) ==
    IF commitment = NoDigest
    THEN Rejected("handleCreateGame", "NoCommitment") /\ lastTx' = NoTx
    ELSE IF opponent = "" \/ ~isValidAddress(opponent)
    THEN Rejected("handleCreateGame", "InvalidAddress") /\ lastTx' = NoTx
    ELSE IF ~parseEthOk(stake)
    THEN Rejected("handleCreateGame", "InvalidAmount") /\ lastTx' = NoTx
    ELSE
    LET stakeAmount == parseEth(stake)
    IN  /\ Execute("handleCreateGame", wallet,
                   create(inst, wallet, commitment, stakeAmount, timeoutInterval,
                          opponent, now))
        /\ LoggedCreate(wallet, opponent, stakeAmount)

handleCreateGame(opponent, stake, commitment, timeoutInterval) ==
    IF commitment = NoDigest
    THEN Rejected("handleCreateGame", "NoCommitment") /\ lastTx' = NoTx
    ELSE IF opponent = "" \/ ~isValidAddress(opponent)
    THEN Rejected("handleCreateGame", "InvalidAddress") /\ lastTx' = NoTx
    ELSE IF ~parseEthOk(stake)
    THEN Rejected("handleCreateGame", "InvalidAmount") /\ lastTx' = NoTx
    ELSE
    LET stakeAmount == parseEth(stake)
    IN  IF opponent = wallet
        THEN /\ Rejected("handleCreateGame", "SameParty")
             /\ LoggedCreate(wallet, opponent, stakeAmount)
        ELSE /\ Execute("handleCreateGame", wallet,
                        create(inst, wallet, commitment, stakeAmount, timeoutInterval,
                               opponent, now))
             /\ LoggedCreate(wallet, opponent, stakeAmount)

\* the instance followed is the one the first deployment that succeeds makes
HandleCreateGame(opponent, stake, commitment, timeoutInterval) ==
    /\ ~inst.created
    /\ handleCreateGame(opponent, stake, commitment, timeoutInterval)
    /\ UNCHANGED <<joinVars, restVars, statusVars>>

\* what a user may have in the fields of GameCreation
OpponentInputs == Parties \cup {"", "garbage"}
StakeFields == {formatEth(wei) : wei \in StakeInputs} \cup {<<"abc">>}
CreateForms ==
    {<<o, v, JoinCommitment>> : o \in Parties, v \in StakeFields}
    \cup {<<o, formatEth(1), JoinCommitment>> : o \in OpponentInputs}
    \cup {<<"bob", formatEth(1), NoDigest>>}

(***************************************************************************)
(* The creation specification: an instance deployed by GameCreation or by  *)
(* a call, then joined, revealed or reclaimed, with GameStatus open on the *)
(* address of the deployment                                               *)
(***************************************************************************)
InitCreate ==
    /\ LedgerIdle
    /\ wallet \in Parties
    /\ gjAddress = ""
    /\ gameInfo = NoGameInfo
    /\ gsAddress = GameAddress
    /\ gameState = NoGameState
    /\ RestIdle

NextCreate ==
    \/ Tick
    \/ \E form \in CreateForms, timeoutInterval \in TimeoutInputs :
          HandleCreateGame(form[1], form[2], form[3], timeoutInterval)
    \/ \E caller \in Parties, stake \in StakeInputs, opponent \in Parties :
          TxCreate(caller, JoinCommitment, stake, 1, opponent)
    \/ \E move \in {Null, Scissors} :
          /\ inst.created
          /\ TxJoin(inst.secondMover, move, inst.stake)
          /\ Logged(inst.secondMover, move, Zero, inst.stake)
    \/ \E caller \in Parties :
          TxFirstMoverTimeoutClaim(caller) /\ Logged(caller, Null, Zero, 0)
    \/ \E caller \in Parties :
          TxSecondMoverTimeoutClaim(caller) /\ Logged(caller, Null, Zero, 0)
    \/ \E move \in {Rock, Paper} :
          /\ TxReveal(inst.firstMover, move, <<"1">>)
          /\ Logged(inst.firstMover, move, <<"1">>, 0)
    \/ LoadGameState

SpecCreate == InitCreate /\ [][NextCreate]_vars

(***************************************************************************)
(* The secret of the first mover: GameCreation selects the move, generates *)
(* the salt, stores and downloads the secret; GameReveal loads it          *)
(***************************************************************************)
\* MOVES, by contract code
MoveNames == <<"Rock", "Paper", "Scissors", "Spock", "Lizard">>

\* JSON.stringify and JSON.parse of the values the records hold: a number
\* below ten as its digit, a string between quotes
Quote == "\""
jsonNumber(n) == <<HexString[n + 1]>>
jsonString(str) == <<Quote>> \o str \o <<Quote>>
parseJsonNumber(text) == CHOOSE n \in 0..9 : HexString[n + 1] = text[1]
parseJsonString(text) == SubSeq(text, 2, Len(text) - 1)
\* the hex string that renders a digest
digestHex(d) == Prefix0x \o d.keccak256
\* an ISO date or a Date.now() of the model's clock
dateString(t) == <<HexString[t + 1]>>

\* the text of a secret record, and the record as the writer holds it
secretRecord(move, salt, commitment, t) ==
    [exported |-> TRUE, json |-> TRUE,
     text |-> [move |-> jsonNumber(move),
               moveName |-> jsonString(<<MoveNames[move]>>),
               salt |-> jsonString(salt),
               commitment |-> jsonString(digestHex(commitment)),
               createdAt |-> jsonString(dateString(t))],
     data |-> [move |-> move, salt |-> salt,
               commitment |-> digestHex(commitment), createdAt |-> dateString(t)]]

jsonParse(text) ==
    [move |-> parseJsonNumber(text.move),
     salt |-> parseJsonString(text.salt),
     commitment |-> parseJsonString(text.commitment),
     createdAt |-> parseJsonString(text.createdAt)]

\* the onChange of the move select of GameCreation: the commitment is cleared
SelectMoveMutantKeepsCommitment(uiMove) ==
    /\ gcMove' = uiMove
    /\ UNCHANGED <<gcSalt, gcCommitment>>
    /\ UNCHANGED <<fundVars, now, lastCall, lastTx, joinVars, statusVars, pureVars,
                   poolVars, storageVars, revealVars>>

SelectMove(uiMove) ==
    /\ gcMove' = uiMove
    /\ gcSalt' = <<>>
    /\ gcCommitment' = NoDigest
    /\ UNCHANGED <<fundVars, now, lastCall, lastTx, joinVars, statusVars, pureVars,
                   poolVars, storageVars, revealVars>>

\* a handler of the forms that sends nothing
Answered(op, result) ==
    /\ lastCall' = [op |-> op, result |-> result, sent |-> FALSE]
    /\ lastTx' = NoTx
    /\ UNCHANGED <<fundVars, now>>

\* handleGenerateSalt, with the salt generateSalt draws
handleGenerateSalt(newSalt) ==
    LET contractMove == uiMoveToContract(gcMove)
        hash == createCommitment(contractMove, newSalt)
    IN  IF ~hash.ok
        THEN /\ Answered("handleGenerateSalt", hash.error)
             /\ UNCHANGED <<creationVars, rpsSecret>>
        ELSE /\ Answered("handleGenerateSalt", "ok")
             /\ gcSalt' = newSalt
             /\ gcCommitment' = hash.value
             /\ rpsSecret' = secretRecord(contractMove, newSalt, hash.value, now)
             /\ UNCHANGED gcMove

HandleGenerateSalt(newSalt) ==
    /\ handleGenerateSalt(newSalt)
    /\ UNCHANGED <<joinVars, statusVars, pureVars, poolVars, secretFile, rpsGames,
                   revealVars>>

\* handleDownloadSecret
handleDownloadSecret ==
    IF gcSalt = <<>>
    THEN Answered("handleDownloadSecret", "NoSalt") /\ UNCHANGED secretFile
    ELSE /\ Answered("handleDownloadSecret", "ok")
         /\ secretFile' = secretRecord(uiMoveToContract(gcMove), gcSalt, gcCommitment, now)

HandleDownloadSecret ==
    /\ handleDownloadSecret
    /\ UNCHANGED <<joinVars, statusVars, pureVars, poolVars, creationVars, rpsSecret,
                   rpsGames, revealVars>>

\* handleCreateGame with the salt and commitment of the form: a deployment
\* that succeeds is recorded in rps_games and empties the form
HandleCreateGameForm(opponent, stake, timeoutInterval) ==
    /\ ~inst.created
    /\ handleCreateGame(opponent, stake,
                        IF gcSalt = <<>> THEN NoDigest ELSE gcCommitment,
                        timeoutInterval)
    /\ IF lastCall'.sent /\ lastCall'.result = "ok"
       THEN /\ rpsGames' = rpsGames \cup
                  {[contractAddress |-> GameAddress, j1 |-> wallet, j2 |-> opponent,
                    stake |-> formatEth(parseEth(stake)),
                    move |-> uiMoveToContract(gcMove), salt |-> gcSalt,
                    commitment |-> gcCommitment]}
            /\ gcSalt' = <<>>
            /\ gcCommitment' = NoDigest
            /\ UNCHANGED gcMove
       ELSE UNCHANGED <<creationVars, rpsGames>>
    /\ UNCHANGED <<joinVars, statusVars, pureVars, poolVars, secretFile, rpsSecret,
                   revealVars>>

\* handleUploadSecret, with the file chosen
handleUploadSecretMutantUiIndex(file) ==
    /\ grFile' = file
    /\ IF ~file.json
       THEN Answered("handleUploadSecret", "InvalidFile") /\ UNCHANGED <<grMove, grSalt>>
       ELSE LET secret == jsonParse(file.text)
            IN  IF secret.move = 0 \/ secret.salt = <<>>
                THEN /\ Answered("handleUploadSecret", "InvalidFile")
                     /\ UNCHANGED <<grMove, grSalt>>
                ELSE /\ Answered("handleUploadSecret", "ok")
                     /\ grMove' = secret.move - 1
                     /\ grSalt' = secret.salt

handleUploadSecret(file) ==
    /\ grFile' = file
    /\ IF ~file.json
       THEN Answered("handleUploadSecret", "InvalidFile") /\ UNCHANGED <<grMove, grSalt>>
       ELSE LET secret == jsonParse(file.text)
            IN  IF secret.move = 0 \/ secret.salt = <<>>
                THEN /\ Answered("handleUploadSecret", "InvalidFile")
                     /\ UNCHANGED <<grMove, grSalt>>
                ELSE /\ Answered("handleUploadSecret", "ok")
                     /\ grMove' = secret.move
                     /\ grSalt' = secret.salt

HandleUploadSecret(file) ==
    /\ file # NoFile
    /\ handleUploadSecret(file)
    /\ UNCHANGED <<joinVars, statusVars, pureVars, poolVars, creationVars, storageVars>>

\* handleLoadFromStorage
handleLoadFromStorage ==
    IF rpsSecret = NoFile
    THEN Answered("handleLoadFromStorage", "NoSecret") /\ UNCHANGED <<grMove, grSalt>>
    ELSE LET secret == jsonParse(rpsSecret.text)
         IN  /\ Answered("handleLoadFromStorage", "ok")
             /\ grMove' = secret.move
             /\ grSalt' = secret.salt

HandleLoadFromStorage ==
    /\ handleLoadFromStorage
    /\ UNCHANGED <<joinVars, statusVars, pureVars, poolVars, creationVars, storageVars,
                   grFile>>

\* files a user may choose that no download made
NotJson == [exported |-> FALSE, json |-> FALSE, text |-> "garbage"]
EmptySaltFile ==
    [exported |-> FALSE, json |-> TRUE,
     text |-> [move |-> jsonNumber(Rock), moveName |-> jsonString(<<"Rock">>),
               salt |-> jsonString(<<>>), commitment |-> jsonString(<<>>),
               createdAt |-> jsonString(<<>>)]]

(***************************************************************************)
(* The secret specification: the first mover's browser, from the selection *)
(* of the move to the deployment and to the loading of the secret          *)
(***************************************************************************)
\* the salt generateSalt draws in this browser (its number is 1)
SecretSalts == {Prefix0x \o Zeros(63) \o <<"1">>}

InitSecret ==
    /\ LedgerIdle
    /\ wallet = "alice"
    /\ gjAddress = ""
    /\ gameInfo = NoGameInfo
    /\ StatusIdle
    /\ RestIdle

NextSecret ==
    \/ \E uiMove \in UiMoves : SelectMove(uiMove)
    \/ \E newSalt \in SecretSalts : HandleGenerateSalt(newSalt)
    \/ HandleDownloadSecret
    \/ \E opponent \in {"alice", "bob"} : HandleCreateGameForm(opponent, formatEth(1), 1)
    \/ \E file \in {secretFile, NotJson, EmptySaltFile} : HandleUploadSecret(file)
    \/ HandleLoadFromStorage

SpecSecret == InitSecret /\ [][NextSecret]_vars

(***************************************************************************)
(* The reveal form specification: the first mover fills the move and the   *)
(* salt fields of GameReveal and presses Reveal, against an instance whose *)
(* commitment createCommitment made                                        *)
(***************************************************************************)
\* the select of GameReveal: setMove(Number(e.target.value)), options 1..5
SetRevealMove(m) ==
    /\ grMove' = m
    /\ UNCHANGED <<fundVars, now, lastCall, lastTx, joinVars, statusVars, pureVars,
                   poolVars, creationVars, storageVars, grFile, grSalt>>

\* the salt field of GameReveal: setSalt(e.target.value)
SetRevealSalt(s) ==
    /\ grSalt' = s
    /\ UNCHANGED <<fundVars, now, lastCall, lastTx, joinVars, statusVars, pureVars,
                   poolVars, creationVars, storageVars, grFile, grMove>>

\* the Reveal button, with the fields as they stand
HandleRevealForm ==
    HandleReveal(wallet, GameAddress, grMove, grSalt)

InitRevealForm ==
    /\ \E m \in Moves, s \in generateSalt :
          Constructed(createCommitment(m, s).value, 1, 1)
    /\ wallet = "alice"
    /\ gjAddress = ""
    /\ gameInfo = NoGameInfo
    /\ StatusIdle
    /\ RestIdle

NextRevealForm ==
    \/ Tick
    \/ TxJoin("bob", Scissors, 1) /\ Logged("bob", Scissors, Zero, 1)
    \/ \E m \in Moves : SetRevealMove(m)
    \/ \E s \in SaltInputs \cup {<<>>} : SetRevealSalt(s)
    \/ HandleRevealForm

SpecRevealForm == InitRevealForm /\ [][NextRevealForm]_vars

(***************************************************************************)
(* The specification of the pure functions: MoveRules and the commitment   *)
(* scheme applied to inputs drawn at the start                             *)
(***************************************************************************)
PureSalts == generateSalt \cup {<<"1">>, <<"0", "x", "1", "0">>}

InitPure ==
    /\ LedgerIdle
    /\ JoinIdle
    /\ StatusIdle
    /\ fa \in MoveInputs
    /\ fb \in MoveInputs
    /\ fsalt \in PureSalts
    /\ fout = [stage |-> "input"]
    /\ PoolIdle
    /\ FormIdle

\* beats is asked about two moves, in both orders; callers reject anything
\* but the five moves before asking
ApplyBeats ==
    /\ fout.stage = "input"
    /\ isValidNonNull(fa)
    /\ isValidNonNull(fb)
    /\ fout' = [stage |-> "beats", ab |-> beats(fa, fb), ba |-> beats(fb, fa)]
    /\ UNCHANGED <<fundVars, now, lastCall, lastTx, joinVars, statusVars, poolVars, formVars,
                   fa, fb, fsalt>>

\* createCommitment is applied to each move with the salt
ApplyCommit ==
    /\ fout.stage = "input"
    /\ fout' = [stage |-> "commit",
                ca |-> createCommitment(fa, fsalt),
                cb |-> createCommitment(fb, fsalt)]
    /\ UNCHANGED <<fundVars, now, lastCall, lastTx, joinVars, statusVars, poolVars, formVars,
                   fa, fb, fsalt>>

\* the ledger's verify is asked to open each of the two commitments with
\* the first move and the salt's number
ApplyVerify ==
    /\ fout.stage = "commit"
    /\ fout.ca.ok
    /\ fout.cb.ok
    /\ fout' = [stage |-> "verify",
                own |-> verify(fa, BigInt(saltCleanOf(fsalt)), fout.ca.value),
                other |-> verify(fa, BigInt(saltCleanOf(fsalt)), fout.cb.value)]
    /\ UNCHANGED <<fundVars, now, lastCall, lastTx, joinVars, statusVars, poolVars, formVars,
                   fa, fb, fsalt>>

NextPure ==
    \/ ApplyBeats
    \/ ApplyCommit
    \/ ApplyVerify

SpecPure == InitPure /\ [][NextPure]_vars

(***************************************************************************)
(* Claims about the pure functions (checked under SpecPure)                *)
(***************************************************************************)
\* the dominance table as the specification prints it
DominanceTable ==
    {<<Rock, Scissors>>, <<Rock, Lizard>>, <<Paper, Rock>>, <<Paper, Spock>>,
     <<Scissors, Paper>>, <<Scissors, Lizard>>, <<Spock, Rock>>,
     <<Spock, Scissors>>, <<Lizard, Paper>>, <<Lizard, Spock>>}

\* C5: for two distinct non-Null moves exactly one of beats(a,b) and
\* beats(b,a) is FirstWins (no distinct pair ties, none loses both ways), and
\* beats(a,a) is Tie.
C5_BeatsTotalAntisymmetric ==
    fout.stage = "beats" =>
        /\ fa = fb => fout.ab = "Tie" /\ fout.ba = "Tie"
        /\ fa # fb =>
            /\ (fout.ab = "FirstWins") # (fout.ba = "FirstWins")
            /\ fout.ab # "Tie" /\ fout.ba # "Tie"
            /\ (fout.ab = "SecondWins") <=> (fout.ba = "FirstWins")

C5_Witness ==
    /\ fout.stage = "beats"
    /\ fa = Lizard /\ fb = Scissors
    /\ fout.ab = "SecondWins" /\ fout.ba = "FirstWins"

\* C6: beats(a,b) is FirstWins exactly when b is in a's dominance set of the
\* printed table, and under beats every move beats exactly two other moves
\* and loses to exactly two other moves.
C6_BeatsFollowsTable ==
    fout.stage = "beats" =>
        /\ (fout.ab = "FirstWins") <=> (<<fa, fb>> \in DominanceTable)
        /\ (fout.ba = "FirstWins") <=> (<<fb, fa>> \in DominanceTable)
        /\ Cardinality({b \in Moves : beats(fa, b) = "FirstWins"}) = 2
        /\ Cardinality({b \in Moves : beats(b, fa) = "FirstWins"}) = 2

C6_Witness ==
    /\ fout.stage = "beats"
    /\ fa = Spock /\ fb = Scissors
    /\ fout.ab = "FirstWins" /\ fout.ba = "SecondWins"

\* C7 (as claimed): the ledger's verify opens the commitment createCommitment
\* made for (m, s) with m and s, and does not open the one made for another
\* move with the same s.
C7_VerifyOpensOwnCommitment ==
    fout.stage = "verify" =>
        /\ fout.own = TRUE
        /\ fa # fb => fout.other = FALSE

C7_Witness ==
    /\ fout.stage = "verify"
    /\ fa = Paper /\ fb = Paper
    /\ fout.own = FALSE

\* C8 (as claimed): the preimage createCommitment hashes is 33 bytes, the
\* 1-byte move code followed by the 32-byte big-endian secret, the move code
\* not padded.
C8_PreimageIsPacked33Bytes ==
    fout.stage = "commit" /\ fout.ca.ok =>
        /\ Len(fout.ca.value.keccak256) = 2 * 33
        /\ fout.ca.value.keccak256 =
               Uint8Byte(fa) \o Uint256Bytes(BigInt(saltCleanOf(fsalt)))

\* what the code hashes instead: 64 bytes, the move code in a 32-byte word
C8_Witness ==
    /\ fout.stage = "commit" /\ fout.ca.ok
    /\ Len(fout.ca.value.keccak256) = 2 * 64
    /\ SubSeq(fout.ca.value.keccak256, 1, 62) = Zeros(62)

(***************************************************************************)
(* Claims about the GameInstance protocol (checked under Spec)             *)
(***************************************************************************)
Sum(f) == f["alice"] + f["bob"] + f["carol"]
SettlementOps == {"reveal", "handleReveal", "secondMoverTimeoutClaim",
                  "firstMoverTimeoutClaim"}
\* a step that is a call: it leaves a new entry in the log
Called == lastCall' # lastCall \/ lastTx' # lastTx

\* C1: stake goes from positive to zero at most once, by a settlement call
\* that succeeds; once it is zero no call succeeds and no step changes the
\* instance or moves funds.
C1_OneSettlementThenTerminal ==
    [][/\ inst.created /\ inst.stake = 0 =>
            /\ UNCHANGED <<inst, paid, deposited>>
            /\ Called => lastCall'.result # "ok"
       /\ inst.stake > 0 /\ inst'.stake = 0 =>
            /\ lastCall'.op \in SettlementOps
            /\ lastCall'.result = "ok"]_vars

C1_Witness ==
    /\ inst.created /\ inst.stake = 0
    /\ lastCall.op = "secondMoverTimeoutClaim"
    /\ lastCall.result = "InvalidPhase"
    /\ Sum(paid) = 2 * deposited["alice"]

\* C2: a settlement call that succeeds leaves stake = 0 and pays out, over
\* the two parties, exactly what was escrowed before it; the total paid out
\* never exceeds twice the stake fixed at creation.
C2_SettlementPaysOutEscrow ==
    /\ [](Sum(paid) <= 2 * deposited[inst.firstMover])
    /\ [](Sum(paid) <= Sum(deposited))
    /\ [][Called /\ lastCall'.op \in SettlementOps /\ lastCall'.result = "ok" =>
            /\ inst'.stake = 0
            /\ inst'.escrow = 0
            /\ Sum(paid') - Sum(paid) = inst.escrow
            /\ inst.escrow = Sum(deposited)
            /\ paid'["carol"] = paid["carol"]]_vars

C2_Witness ==
    /\ lastCall.op = "reveal" /\ lastCall.result = "ok"
    /\ inst.stake = 0
    /\ deposited["alice"] = 2 /\ deposited["bob"] = 2
    /\ paid["alice"] = 2 /\ paid["bob"] = 2

\* C4: a reveal that succeeds pays by the outcome for the first move m that
\* opens the commitment and the stored second move: the full 2 x stake to
\* the first mover and nothing to the second when m beats it, the converse
\* when it beats m, and exactly stake to each on a tie.
C4_RevealPaysByOutcome ==
    [][Called /\ lastCall'.op = "reveal" /\ lastCall'.result = "ok" =>
          /\ \E m \in Moves, x \in SecretInputs : verify(m, x, inst.commitment)
          /\ \A m \in Moves, x \in SecretInputs :
                verify(m, x, inst.commitment) =>
                    LET gotFirst == paid'[inst.firstMover] - paid[inst.firstMover]
                        gotSecond == paid'[inst.secondMover] - paid[inst.secondMover]
                    IN  IF <<m, inst.secondMove>> \in DominanceTable
                        THEN gotFirst = 2 * inst.stake /\ gotSecond = 0
                        ELSE IF <<inst.secondMove, m>> \in DominanceTable
                        THEN gotFirst = 0 /\ gotSecond = 2 * inst.stake
                        ELSE /\ m = inst.secondMove
                             /\ gotFirst = inst.stake /\ gotSecond = inst.stake]_vars

C4_Witness ==
    /\ lastCall.op = "reveal" /\ lastCall.result = "ok"
    /\ inst.secondMove = Spock
    /\ verify(Paper, <<"1">>, inst.commitment)
    /\ deposited["alice"] = 1
    /\ paid["alice"] = 2 /\ paid["bob"] = 0

(***************************************************************************)
(* Claims about reveal and the move checks (checked under SpecReveal)      *)
(***************************************************************************)
RevealOps == {"reveal", "handleReveal"}
\* the call of this step reached the instance as a reveal
RevealReached == Called /\ lastCall'.op \in RevealOps /\ lastCall'.sent
                        /\ lastCall'.result # "NoContract"
\* the preimage the ledger hashes for the arguments logged
Opens(tx, commitment) ==
    /\ tx.move \in Moves
    /\ keccak256(Uint8Byte(tx.move) \o Uint256Bytes(tx.secret)) = commitment

\* C3: a reveal succeeds only with a move and secret whose commitment is the
\* stored one; a reveal by the first mover in AwaitingReveal with a valid
\* move that does not match fails with CommitmentMismatch, and the instance
\* (phase, stake, secondMove, lastActionTimestamp) and every balance stay
\* as they were.
C3_RevealOnlyOpensStoredCommitment ==
    [][RevealReached =>
          /\ lastCall'.result = "ok" => Opens(lastTx', inst.commitment)
          /\ (/\ phase(inst) = "AwaitingReveal"
              /\ lastTx'.caller = inst.firstMover
              /\ lastTx'.move \in Moves
              /\ ~Opens(lastTx', inst.commitment)) =>
                /\ lastCall'.result = "CommitmentMismatch"
                /\ phase(inst') = "AwaitingReveal"
                /\ UNCHANGED <<inst, paid, deposited, stray>>]_vars

C3_Witness ==
    /\ lastCall.op = "handleReveal" /\ lastCall.result = "CommitmentMismatch"
    /\ lastTx.caller = "alice" /\ lastTx.move = Lizard
    /\ inst.commitment = commit(Rock, lastTx.secret).value
    /\ phase(inst) = "AwaitingReveal" /\ inst.stake = 1
    /\ paid = NoPay

\* C9: a move that is Null or outside 1..5 gets nowhere: createCommitment
\* answers InvalidMove and no commitment, the reveal form sends no
\* transaction, and a join or reveal presented with it fails and leaves the
\* instance and the balances as they were.
C9_InvalidMoveRejectedEverywhere ==
    /\ [](lastCall.op = "handleReveal" /\ lastCall.sent => lastTx.move \in Moves)
    /\ [](lastCall.op = "createCommitment" =>
            /\ lastTx.move \notin Moves => lastCall.result = "InvalidMove"
            /\ lastCall.result = "ok" => lastTx.move \in Moves)
    /\ [](\A moveIndex \in MoveInputs \ Moves, saltHex \in SaltInputs :
            /\ ~createCommitment(moveIndex, saltHex).ok
            /\ createCommitment(moveIndex, saltHex).error = "InvalidMove"
            /\ createCommitment(moveIndex, saltHex).value = NoDigest)
    /\ [][Called /\ lastCall'.op \in RevealOps \cup {"join"}
             /\ lastTx'.move \notin Moves =>
                /\ lastCall'.result # "ok"
                /\ UNCHANGED <<inst, paid, deposited, stray>>]_vars

C9_Witness ==
    /\ lastCall.op = "handleReveal" /\ lastCall.result = "InvalidMove"
    /\ ~lastCall.sent
    /\ phase(inst) = "AwaitingReveal"

(***************************************************************************)
(* Claims about join (checked under SpecJoin)                              *)
(***************************************************************************)
JoinOps == {"join", "handleJoinGame"}
\* which of the four conditions of join the logged call meets
JoinFaults(g, tx) ==
    (IF tx.caller # g.secondMover THEN {"WrongParty"} ELSE {})
    \cup (IF g.secondMove # Null THEN {"AlreadyPlayed"} ELSE {})
    \cup (IF tx.value # g.stake THEN {"StakeMismatch"} ELSE {})
    \cup (IF tx.move \notin Moves THEN {"InvalidMove"} ELSE {})

\* C10: a join that reaches an instance not yet settled fails exactly when
\* the caller is not the second mover, the second move is already set, the
\* stake paid differs from the stake, or the move is Null, and the error it
\* reports names one of the conditions that hold; the client reports
\* WrongParty and AlreadyPlayed only when they hold; and a join that fails
\* leaves secondMove, lastActionTimestamp, the escrowed total, the phase and
\* every balance as they were.
C10_JoinFailuresNamedAndWithoutEffect ==
    [][Called /\ lastCall'.op \in JoinOps /\ lastCall'.result # "NoContract" =>
          /\ (lastCall'.sent /\ inst.stake > 0) =>
                IF JoinFaults(inst, lastTx') = {}
                THEN lastCall'.result = "ok"
                ELSE lastCall'.result \in JoinFaults(inst, lastTx')
          /\ (~lastCall'.sent /\ lastCall'.result = "WrongParty") =>
                lastTx'.caller # inst.secondMover
          /\ (~lastCall'.sent /\ lastCall'.result = "AlreadyPlayed") =>
                inst.secondMove # Null
          /\ lastCall'.result # "ok" =>
                /\ UNCHANGED <<inst, paid, deposited, stray>>
                /\ phase(inst') = phase(inst)]_vars

C10_Witness ==
    /\ lastCall.op = "handleJoinGame" /\ lastCall.sent
    /\ lastCall.result = "AlreadyPlayed"
    /\ lastTx.caller = "bob" /\ lastTx.value = 2
    /\ inst.secondMove = Scissors /\ inst.escrow = 4
    /\ deposited["bob"] = 2

\* a join that reaches the instance, or that GameJoin answers from game info
\* that shows the instance as it is
JoinAttempt ==
    /\ Called /\ lastCall'.op \in JoinOps
    /\ \/ lastCall'.sent /\ lastCall'.result # "NoContract"
       \/ /\ ~lastCall'.sent
          /\ gjAddress = GameAddress
          /\ gameInfo = loadGameInfo(inst, gjAddress, wallet)

\* C11: secondMove, once a move, never changes: with a second move recorded
\* every join, by any party with any move and stake, fails with
\* AlreadyPlayed and leaves secondMove, the escrowed total and every balance
\* as they were; and secondMove leaves Null only by a join that succeeds.
C11_SecondMoveSetAtMostOnce ==
    /\ [][inst.secondMove # Null => inst'.secondMove = inst.secondMove]_vars
    /\ [][inst'.secondMove # inst.secondMove =>
             /\ inst.secondMove = Null /\ inst'.secondMove \in Moves
             /\ lastCall'.op \in JoinOps /\ lastCall'.result = "ok"]_vars
    /\ [][JoinAttempt /\ inst.secondMove # Null =>
             /\ lastCall'.result = "AlreadyPlayed"
             /\ inst'.secondMove = inst.secondMove
             /\ inst'.escrow = inst.escrow
             /\ UNCHANGED <<inst, paid, deposited, stray>>]_vars

C11_Witness ==
    /\ lastCall.op = "handleJoinGame" /\ ~lastCall.sent
    /\ lastCall.result = "AlreadyPlayed"
    /\ lastTx.caller = "carol"
    /\ inst.secondMove = Scissors /\ inst.escrow = 2 * inst.stake
    /\ deposited["carol"] = 0

\* C12: the escrowed total follows the phase: stake while the second move
\* is awaited, 2 x stake while the reveal is awaited, 0 once settled, and it
\* is what was deposited less what was paid out; the reveal is awaited only
\* after a join that succeeded paying exactly stake, and GameJoin pays
\* exactly stake with every join it sends to a live instance.
C12_EscrowFollowsPhase ==
    /\ [](/\ phase(inst) = "AwaitingSecondMove" => inst.escrow = inst.stake
          /\ phase(inst) = "AwaitingReveal" => inst.escrow = 2 * inst.stake
          /\ phase(inst) = "Settled" => inst.escrow = 0
          /\ inst.escrow \in {0, inst.stake, 2 * inst.stake}
          /\ inst.escrow = Sum(deposited) - Sum(paid))
    /\ [][phase(inst') = "AwaitingReveal" /\ phase(inst) # "AwaitingReveal" =>
             /\ phase(inst) = "AwaitingSecondMove"
             /\ lastCall'.op \in JoinOps /\ lastCall'.result = "ok"
             /\ lastTx'.value = inst.stake
             /\ inst'.stake = inst.stake
             /\ deposited'[inst.secondMover] = deposited[inst.secondMover] + inst.stake]_vars
    /\ [][(/\ Called /\ lastCall'.op = "handleJoinGame" /\ lastCall'.sent
           /\ lastCall'.result # "NoContract" /\ inst.stake > 0) =>
             lastTx'.value = inst.stake]_vars

C12_Witness ==
    /\ lastCall.op = "handleJoinGame" /\ lastCall.result = "ok"
    /\ phase(inst) = "AwaitingReveal"
    /\ inst.stake = 2 /\ inst.escrow = 4
    /\ deposited["alice"] = 2 /\ deposited["bob"] = 2

(***************************************************************************)
(* Claims about the timeout claims (checked under SpecStatus)              *)
(***************************************************************************)
FirstClaimOps == {"firstMoverTimeoutClaim", "callTimeout.j2Timeout"}
SecondClaimOps == {"secondMoverTimeoutClaim", "callTimeout.j1Timeout"}
TimeoutOps == FirstClaimOps \cup SecondClaimOps
\* the call of this step reached the instance as a timeout claim
ClaimReached(ops) ==
    /\ Called /\ lastCall'.op \in ops
    /\ lastCall'.sent /\ lastCall'.result # "NoContract"
\* the time elapsed since the last action is strictly more than the interval
Elapsed == now - inst.lastActionTimestamp > inst.timeoutInterval
\* the claim is made in its phase by its party
ClaimInOrder ==
    \/ /\ lastCall'.op \in FirstClaimOps
       /\ phase(inst) = "AwaitingSecondMove"
       /\ lastTx'.caller = inst.firstMover
    \/ /\ lastCall'.op \in SecondClaimOps
       /\ phase(inst) = "AwaitingReveal"
       /\ lastTx'.caller = inst.secondMover

\* C13: a timeout claim of either kind succeeds only when
\* now - lastActionTimestamp > timeoutInterval; made earlier, equality
\* included, it fails and moves no funds, with TimeoutNotElapsed when phase
\* and caller are in order; in order, it succeeds exactly when that
\* inequality holds; and GameStatus offers a claim only when it holds.
C13_TimeoutStrictlyAfterInterval ==
    /\ [][ClaimReached(TimeoutOps) =>
             /\ lastCall'.result = "ok" => Elapsed
             /\ ~Elapsed =>
                  /\ lastCall'.result # "ok"
                  /\ UNCHANGED <<inst, paid, deposited, stray>>
             /\ ClaimInOrder =>
                  lastCall'.result = IF Elapsed THEN "ok" ELSE "TimeoutNotElapsed"]_vars
    /\ [][gameState' # gameState /\ gameState'.loaded =>
             /\ gameState'.isTimedOut <=>
                  (now' - inst'.lastActionTimestamp > inst'.timeoutInterval)
             /\ gameState'.canTimeout <=>
                  (gameState'.isTimedOut /\ inst'.stake > 0)]_vars
    /\ [](gameState.loaded /\ gameState.canTimeout =>
             now - gameState.lastAction > gameState.timeout)

C13_Witness ==
    /\ lastCall.op = "secondMoverTimeoutClaim"
    /\ lastCall.result = "TimeoutNotElapsed"
    /\ lastTx.caller = "bob"
    /\ now - inst.lastActionTimestamp = inst.timeoutInterval
    /\ inst.timeoutInterval = 2
    /\ paid = NoPay /\ inst.escrow = 2 * inst.stake

\* C14: the claim of the first mover succeeds only while the second move is
\* awaited, only for the first mover and only after the interval; it then
\* returns exactly stake to the first mover, pays the second mover nothing
\* and settles the instance; made in order before the interval has elapsed
\* it fails with TimeoutNotElapsed. GameStatus sends it only from a snapshot
\* without a second move, for the account that is the snapshot's j1.
C14_FirstMoverClaimReturnsStake ==
    /\ [][ClaimReached(FirstClaimOps) =>
             /\ lastCall'.result = "ok" =>
                  /\ phase(inst) = "AwaitingSecondMove"
                  /\ lastTx'.caller = inst.firstMover
                  /\ Elapsed
                  /\ paid' = [paid EXCEPT ![inst.firstMover] = @ + inst.stake]
                  /\ paid'[inst.secondMover] = paid[inst.secondMover]
                  /\ phase(inst') = "Settled" /\ inst'.escrow = 0
                  /\ deposited' = deposited
             /\ (/\ phase(inst) = "AwaitingSecondMove"
                 /\ lastTx'.caller = inst.firstMover) =>
                  IF Elapsed THEN lastCall'.result = "ok"
                  ELSE /\ lastCall'.result = "TimeoutNotElapsed"
                       /\ UNCHANGED <<inst, paid, deposited, stray>>]_vars
    /\ [][Called /\ lastCall'.op = "callTimeout.j2Timeout" /\ lastCall'.sent =>
             /\ gameState.c2 = Null
             /\ gameState.canTimeout
             /\ lastTx'.caller = gameState.j1]_vars

C14_Witness ==
    /\ lastCall.op = "callTimeout.j2Timeout" /\ lastCall.result = "ok"
    /\ lastTx.caller = "alice"
    /\ phase(inst) = "Settled" /\ inst.secondMove = Null
    /\ deposited["alice"] = 2 /\ paid["alice"] = 2 /\ paid["bob"] = 0
    /\ gameState.loaded /\ gameState.stakeWei = 0

\* C15: the claim of the second mover succeeds only while the reveal is
\* awaited, only for the second mover and only after the interval has
\* elapsed since the join; it then pays the full 2 x stake to the second
\* mover, nothing to the first mover, and settles the instance. GameStatus
\* sends it only from a snapshot with a second move, for the account that is
\* the snapshot's j2.
C15_SecondMoverClaimTakesPot ==
    /\ [][ClaimReached(SecondClaimOps) =>
             /\ lastCall'.result = "ok" =>
                  /\ phase(inst) = "AwaitingReveal"
                  /\ lastTx'.caller = inst.secondMover
                  /\ Elapsed
                  /\ paid' = [paid EXCEPT ![inst.secondMover] = @ + 2 * inst.stake]
                  /\ paid'[inst.firstMover] = paid[inst.firstMover]
                  /\ phase(inst') = "Settled" /\ inst'.escrow = 0
                  /\ deposited' = deposited
             /\ (/\ phase(inst) = "AwaitingReveal"
                 /\ lastTx'.caller = inst.secondMover) =>
                  IF Elapsed THEN lastCall'.result = "ok"
                  ELSE /\ lastCall'.result = "TimeoutNotElapsed"
                       /\ UNCHANGED <<inst, paid, deposited, stray>>]_vars
    /\ [][inst'.lastActionTimestamp # inst.lastActionTimestamp =>
             /\ lastCall'.op = "join" /\ lastCall'.result = "ok"
             /\ inst'.lastActionTimestamp = now]_vars
    /\ [][Called /\ lastCall'.op = "callTimeout.j1Timeout" /\ lastCall'.sent =>
             /\ gameState.c2 # Null
             /\ gameState.canTimeout
             /\ lastTx'.caller = gameState.j2]_vars

C15_Witness ==
    /\ lastCall.op = "callTimeout.j1Timeout" /\ lastCall.result = "ok"
    /\ lastTx.caller = "bob"
    /\ phase(inst) = "Settled" /\ inst.secondMove = Scissors
    /\ deposited["alice"] = 2 /\ deposited["bob"] = 2
    /\ paid["bob"] = 4 /\ paid["alice"] = 0
    /\ gameState.loaded /\ gameState.stakeWei = 0

(***************************************************************************)
(* Claims about calls out of phase (checked under Spec)                    *)
(***************************************************************************)
\* the phases, read from the fields of the instance
SecondMoveAwaited == inst.created /\ inst.stake > 0 /\ inst.secondMove = Null
RevealAwaited == inst.created /\ inst.stake > 0 /\ inst.secondMove # Null
IsSettled == inst.created /\ inst.stake = 0
NoEffect == UNCHANGED <<inst, paid, deposited, stray>>
\* the call of this step is op and the instance is not in a phase for it
OutOfPhase(op) ==
    /\ Called /\ lastCall'.op = op
    /\ CASE op = "join" -> RevealAwaited \/ IsSettled
         [] op = "reveal" -> SecondMoveAwaited \/ IsSettled
         [] op = "secondMoverTimeoutClaim" -> SecondMoveAwaited \/ IsSettled
         [] op = "firstMoverTimeoutClaim" -> RevealAwaited \/ IsSettled

\* C16 (as claimed): every transition attempted out of its phase, join with
\* a second move recorded included, fails with InvalidPhase and changes
\* nothing.
C16_EveryCallOutOfPhaseIsInvalidPhase ==
    [][\A op \in SettlementOps \cup {"join"} :
          OutOfPhase(op) => lastCall'.result = "InvalidPhase" /\ NoEffect]_vars

\* C16 (amended): reveal and the two timeout claims attempted out of their
\* phase fail with InvalidPhase; join out of its phase fails with
\* AlreadyPlayed when a second move is recorded and with InvalidPhase
\* otherwise; none of them changes a field of the instance or a balance.
C16_CallOutOfPhaseFailsWithoutEffect ==
    [][/\ \A op \in {"reveal", "secondMoverTimeoutClaim", "firstMoverTimeoutClaim"} :
             OutOfPhase(op) => lastCall'.result = "InvalidPhase" /\ NoEffect
       /\ OutOfPhase("join") =>
             /\ lastCall'.result =
                  IF inst.secondMove # Null THEN "AlreadyPlayed" ELSE "InvalidPhase"
             /\ NoEffect]_vars

C16_Witness ==
    /\ lastCall.op = "firstMoverTimeoutClaim" /\ lastCall.result = "InvalidPhase"
    /\ RevealAwaited
    /\ now - inst.lastActionTimestamp > inst.timeoutInterval
    /\ inst.escrow = 2 * inst.stake /\ paid = NoPay

(***************************************************************************)
(* Claims about who may reveal (checked under SpecReveal)                  *)
(***************************************************************************)
\* C17: a reveal that reaches an instance awaiting it from any party other
\* than the first mover fails with WrongParty, whether or not the move and
\* secret open the commitment; the instance keeps awaiting the reveal and
\* no funds move.
C17_OnlyFirstMoverReveals ==
    [][(/\ RevealReached
        /\ phase(inst) = "AwaitingReveal"
        /\ lastTx'.caller # inst.firstMover) =>
            /\ lastCall'.result = "WrongParty"
            /\ phase(inst') = "AwaitingReveal"
            /\ UNCHANGED <<inst, paid, deposited, stray>>]_vars

C17_Witness ==
    /\ lastCall.op = "handleReveal" /\ lastCall.sent
    /\ lastCall.result = "WrongParty"
    /\ lastTx.caller = "bob"
    /\ Opens(lastTx, inst.commitment)
    /\ phase(inst) = "AwaitingReveal" /\ paid = NoPay

(***************************************************************************)
(* Claims about creation (checked under SpecCreate)                        *)
(***************************************************************************)
CreateOps == {"create", "handleCreateGame"}
\* the call of this step is a create attempt past the form's field checks
CreateAttempt ==
    /\ Called /\ lastCall'.op \in CreateOps
    /\ lastTx' # NoTx

\* C18: the two parties of an instance differ in every reachable state; a
\* create attempt naming the creator as opponent creates no instance and
\* escrows nothing (it fails with SameParty when its stake is positive), and
\* GameCreation sends no deployment for it.
C18_PartiesDiffer ==
    /\ [](inst.created => inst.firstMover # inst.secondMover)
    /\ [][(CreateAttempt /\ lastTx'.caller = lastTx'.opponent) =>
            /\ lastCall'.result # "ok"
            /\ lastTx'.value > 0 => lastCall'.result = "SameParty"
            /\ lastCall'.op = "handleCreateGame" => ~lastCall'.sent
            /\ ~inst'.created
            /\ UNCHANGED <<inst, paid, deposited, stray>>]_vars

C18_Witness ==
    /\ lastCall.op = "handleCreateGame" /\ lastCall.result = "SameParty"
    /\ lastTx # NoTx /\ lastTx.caller = "alice" /\ lastTx.opponent = "alice"
    /\ lastTx.value = 2
    /\ ~inst.created /\ deposited = NoPay

\* C19: a create attempt with stake zero is rejected, creates no instance and
\* escrows nothing; an instance comes into being only with the positive stake
\* its creator deposited, so an instance awaiting the second move or the
\* reveal has stake > 0.
C19_CreateRequiresPositiveStake ==
    /\ [][(CreateAttempt /\ lastTx'.value = 0) =>
            /\ lastCall'.result # "ok"
            /\ lastCall'.sent => lastCall'.result = "InvalidStake"
            /\ ~inst'.created
            /\ UNCHANGED <<inst, paid, deposited, stray>>]_vars
    /\ [][(~inst.created /\ inst'.created) =>
            /\ CreateAttempt /\ lastCall'.result = "ok"
            /\ inst'.stake > 0 /\ inst'.stake = lastTx'.value
            /\ inst'.escrow = inst'.stake
            /\ deposited' = [deposited EXCEPT ![lastTx'.caller] = inst'.stake]
            /\ phase(inst') = "AwaitingSecondMove"]_vars
    /\ [](phase(inst) \in {"AwaitingSecondMove", "AwaitingReveal"} =>
            inst.stake > 0 /\ inst.escrow >= inst.stake)

C19_Witness ==
    /\ lastCall.op = "handleCreateGame" /\ lastCall.sent
    /\ lastCall.result = "InvalidStake"
    /\ lastTx # NoTx /\ lastTx.value = 0 /\ lastTx.caller # lastTx.opponent
    /\ ~inst.created /\ deposited = NoPay

(***************************************************************************)
(* Claims about the fields no call may touch (checked under SpecCreate)    *)
(***************************************************************************)
\* the fields fixed at creation
Fixed(g) == <<g.commitment, g.firstMover, g.secondMover, g.timeoutInterval>>
StampingOps == CreateOps \cup {"join"}

\* C20: lastActionTimestamp is set to now by a create and by a join that
\* succeed and changes in no other step: a failed call changes nothing of
\* the instance, reveal and both timeout claims keep the timestamp, and a
\* state query of GameStatus changes nothing and reports the timestamp,
\* commitment, parties and interval as they are.  Once the instance exists
\* its commitment, parties and interval never change.
C20_TimestampSetByCreateAndJoinOnly ==
    /\ [][(Called /\ lastCall'.result = "ok" /\ lastCall'.op \in StampingOps) =>
            inst'.lastActionTimestamp = now']_vars
    /\ [][inst'.lastActionTimestamp # inst.lastActionTimestamp =>
            /\ Called /\ lastCall'.result = "ok" /\ lastCall'.op \in StampingOps
            /\ inst'.lastActionTimestamp = now']_vars
    /\ [][(Called /\ lastCall'.result # "ok") => UNCHANGED inst]_vars
    /\ [][(Called /\ lastCall'.op \in RevealOps \cup TimeoutOps) =>
            /\ inst'.lastActionTimestamp = inst.lastActionTimestamp
            /\ Fixed(inst') = Fixed(inst)]_vars
    /\ [][inst.created => inst'.created /\ Fixed(inst') = Fixed(inst)]_vars
    /\ [][gameState' # gameState =>
            /\ UNCHANGED <<inst, paid, deposited, stray>>
            /\ gameState'.loaded =>
                 /\ gameState'.lastAction = inst.lastActionTimestamp
                 /\ gameState'.c1Hash = inst.commitment
                 /\ gameState'.j1 = inst.firstMover
                 /\ gameState'.j2 = inst.secondMover
                 /\ gameState'.timeout = inst.timeoutInterval]_vars

C20_Witness ==
    /\ lastCall.op = "secondMoverTimeoutClaim" /\ lastCall.result = "ok"
    /\ inst.lastActionTimestamp > 0 /\ inst.lastActionTimestamp < now
    /\ gameState.loaded /\ gameState.stakeWei = 0
    /\ gameState.lastAction = inst.lastActionTimestamp
    /\ gameState.c1Hash = JoinCommitment

(***************************************************************************)
(* Claims about calls in flight (checked under SpecRace)                   *)
(***************************************************************************)
JoinReceipts == {r \in receipts : r.op = "handleJoinGame"}
RevealReceipts == {r \in receipts : r.op = "handleReveal"}
Succeeded(rs) == {r \in rs : r.result = "ok"}
\* the reveals sent while the instance awaited the reveal, with the pair that
\* opens the commitment
RacingReveals == {r \in RevealReceipts : r.seen = "AwaitingReveal" /\ r.opens}
\* this step the ledger executed a call that had been in flight
Mined == receipts' # receipts

\* C21: of the joins in flight together the ledger accepts exactly one,
\* whatever the order it executes them in, and answers each of the others
\* AlreadyPlayed or InvalidPhase; of the reveals sent with the opening pair
\* while the reveal is awaited it accepts exactly one and answers the others
\* InvalidPhase; a call it refuses changes neither the instance nor any
\* balance.
C21_OneOfTheCallsInFlightSucceeds ==
    /\ [](/\ Cardinality(Succeeded(JoinReceipts)) <= 1
          /\ JoinReceipts # {} => Cardinality(Succeeded(JoinReceipts)) = 1
          /\ \A r \in JoinReceipts :
                r.result \in {"ok", "AlreadyPlayed", "InvalidPhase"}
          /\ Cardinality(Succeeded(RevealReceipts)) <= 1
          /\ RacingReveals # {} => Cardinality(Succeeded(RevealReceipts)) = 1
          /\ \A r \in RacingReveals : r.result \in {"ok", "InvalidPhase"})
    /\ [][(Mined /\ lastCall'.result # "ok") =>
            UNCHANGED <<inst, paid, deposited, stray>>]_vars

C21_Witness ==
    /\ mempool = {}
    /\ Cardinality(JoinReceipts) = 2
    /\ \A r \in JoinReceipts : r.seen = "AwaitingSecondMove"
    /\ \E r \in JoinReceipts : r.result = "AlreadyPlayed" /\ r.id = 1
    /\ Cardinality(RacingReveals) = 2
    /\ \E r \in RacingReveals : r.result = "InvalidPhase"
    /\ inst.stake = 0 /\ Sum(paid) = 2

(***************************************************************************)
(* Claims about a stalling counterpart (checked under SpecStall)           *)
(***************************************************************************)
\* C22: while the second move is awaited and the first mover's GameStatus
\* keeps loading and claiming, either the second mover joins or the instance
\* comes to be settled with the first mover's stake returned and nothing
\* else paid; while the reveal is awaited and never made, the second mover's
\* GameStatus brings the instance to be settled with both stakes paid to the
\* second mover.
C22_StalledInstanceIsSettledByTimeout ==
    /\ (phase(inst) = "AwaitingSecondMove" /\ wallet = "alice")
          ~> \/ phase(inst) = "AwaitingReveal"
             \/ /\ IsSettled
                /\ deposited["bob"] = 0
                /\ paid = PayTo("alice", deposited["alice"])
    /\ (phase(inst) = "AwaitingReveal" /\ wallet = "bob")
          ~> /\ IsSettled
             /\ paid = PayTo("bob", deposited["alice"] + deposited["bob"])

C22_Witness ==
    /\ lastCall.op = "callTimeout.j1Timeout" /\ lastCall.result = "ok"
    /\ wallet = "bob" /\ IsSettled
    /\ paid = PayTo("bob", 4)
    /\ gameState.loaded /\ gameState.stakeWei = 0

(***************************************************************************)
(* Claims about the order of the phases (checked under SpecCreate)         *)
(***************************************************************************)
PhaseEdges ==
    {<<"NotCreated", "AwaitingSecondMove">>,
     <<"AwaitingSecondMove", "AwaitingReveal">>,
     <<"AwaitingReveal", "Settled">>,
     <<"AwaitingSecondMove", "Settled">>}
\* how far along the phase GameStatus shows is
ShownRank(state) ==
    IF state.phase = "Waiting for Player 2 to join" THEN 1
    ELSE IF state.phase = "Player 2 joined, waiting for Player 1 to reveal" THEN 2
    ELSE 3

\* C23: every step leaves the phase as it is or moves it along
\* AwaitingSecondMove -> AwaitingReveal -> Settled or AwaitingSecondMove ->
\* Settled (after the creation); nothing leaves Settled, and the phase that
\* GameStatus shows from one load to the next never moves back.
C23_PhaseOnlyMovesForward ==
    /\ [][\/ phase(inst') = phase(inst)
          \/ <<phase(inst), phase(inst')>> \in PhaseEdges]_vars
    /\ [][phase(inst) = "Settled" => phase(inst') = "Settled"]_vars
    /\ [][(gameState.loaded /\ gameState'.loaded) =>
            ShownRank(gameState') >= ShownRank(gameState)]_vars

C23_Witness ==
    /\ phase(inst) = "Settled" /\ inst.secondMove # Null
    /\ lastCall.op = "join" /\ lastCall.result = "AlreadyPlayed"
    /\ paid["alice"] = 2 * deposited["alice"]
    /\ gameState.loaded /\ ShownRank(gameState) = 3

(***************************************************************************)
(* Claims about the first mover's secret (checked under SpecSecret)        *)
(***************************************************************************)
\* C25: the secret file that GameCreation downloads parses back to the four
\* fields written (move code 1..5, salt, commitment, creation time), and
\* GameReveal, given a downloaded file, loads the move and the salt that
\* were written, for each of the five moves.
C25_SecretFileRoundTrips ==
    /\ [][secretFile' # secretFile =>
            /\ secretFile'.data.move = uiMoveToContract(gcMove)
            /\ secretFile'.data.move \in 1..5
            /\ secretFile'.data.salt = gcSalt
            /\ secretFile'.data.commitment = digestHex(gcCommitment)
            /\ jsonParse(secretFile'.text) = secretFile'.data]_vars
    /\ [][(Called /\ lastCall'.op = "handleUploadSecret" /\ grFile'.exported) =>
            /\ lastCall'.result = "ok"
            /\ grMove' = grFile'.data.move
            /\ grSalt' = grFile'.data.salt]_vars

C25_Witness ==
    /\ lastCall.op = "handleUploadSecret" /\ lastCall.result = "ok"
    /\ grFile.exported /\ grFile.data.move = Lizard
    /\ grMove = Lizard /\ grSalt \in SecretSalts
    /\ gcMove = 0 /\ gcSalt = <<>>

\* C29: in GameCreation a commitment, whenever there is one, is
\* createCommitment of the move selected and the salt held; the commitment
\* deployed, the record saved to rps_games and the secret file downloaded
\* each hold a move, salt and commitment that agree in the same way.
C29_CommitmentMatchesMoveAndSalt ==
    /\ [](gcCommitment # NoDigest =>
            /\ gcSalt # <<>>
            /\ createCommitment(uiMoveToContract(gcMove), gcSalt) = Ok(gcCommitment))
    /\ [](\A g \in rpsGames :
            /\ createCommitment(g.move, g.salt) = Ok(g.commitment)
            /\ inst.created /\ inst.commitment = g.commitment)
    /\ [](secretFile.exported =>
            /\ createCommitment(secretFile.data.move, secretFile.data.salt).ok
            /\ digestHex(createCommitment(secretFile.data.move,
                                          secretFile.data.salt).value)
                  = secretFile.data.commitment)
    /\ [][(~inst.created /\ inst'.created) =>
            /\ gcCommitment # NoDigest
            /\ inst'.commitment = gcCommitment
            /\ rpsGames' = {[contractAddress |-> GameAddress, j1 |-> inst'.firstMover,
                             j2 |-> inst'.secondMover, stake |-> formatEth(inst'.stake),
                             move |-> uiMoveToContract(gcMove), salt |-> gcSalt,
                             commitment |-> gcCommitment]}]_vars

C29_Witness ==
    /\ inst.created
    /\ \E g \in rpsGames : g.move = Spock /\ g.commitment = inst.commitment
    /\ secretFile.exported /\ secretFile.data.move = Spock
    /\ gcMove = 1 /\ gcCommitment # NoDigest

(***************************************************************************)
(* Claims about what GameStatus shows (checked under SpecCreate)           *)
(***************************************************************************)
\* C26: the phase a load of GameStatus derives is the phase of the instance
\* it read: completed exactly for Settled, waiting for player 2 exactly for
\* AwaitingSecondMove, waiting for the reveal exactly for AwaitingReveal.
C26_ShownPhaseIsThePhase ==
    [][(gameState' # gameState /\ gameState'.loaded) =>
         /\ gameState'.phase = "Game Completed (stake withdrawn)"
               <=> (phase(inst') = "Settled" /\ inst'.stake = 0)
         /\ gameState'.phase = "Waiting for Player 2 to join"
               <=> (phase(inst') = "AwaitingSecondMove"
                    /\ inst'.stake > 0 /\ inst'.secondMove = Null)
         /\ gameState'.phase = "Player 2 joined, waiting for Player 1 to reveal"
               <=> (phase(inst') = "AwaitingReveal"
                    /\ inst'.stake > 0 /\ inst'.secondMove # Null)]_vars

C26_Witness ==
    /\ gameState.loaded
    /\ gameState.phase = "Game Completed (stake withdrawn)"
    /\ gameState.c2 = Null
    /\ phase(inst) = "Settled" /\ inst.secondMove = Null
    /\ lastCall.op = "firstMoverTimeoutClaim" /\ lastCall.result = "ok"

(***************************************************************************)
(* Claims about the names of the timeout calls (checked under SpecStatus)  *)
(***************************************************************************)
\* this step callTimeout sent the ledger call of this name
Issued(name) ==
    /\ Called /\ lastCall'.op = name /\ lastCall'.sent

C28_OnlySecondMoverTimeoutSettlesWithoutOpening ==
    /\ [][(/\ phase(inst) = "AwaitingReveal"
            /\ Called
            /\ lastTx'.caller = inst.firstMover
            /\ ~(lastCall'.op \in RevealOps /\ Opens(lastTx', inst.commitment)))
           => UNCHANGED <<inst, paid, deposited, stray>>]_vars
    /\ [][(phase(inst) = "AwaitingReveal" /\ inst' # inst) =>
            /\ Called /\ lastCall'.result = "ok"
            /\ phase(inst') = "Settled"
            /\ \/ /\ lastCall'.op \in RevealOps
                  /\ lastTx'.caller = inst.firstMover
                  /\ Opens(lastTx', inst.commitment)
               \/ /\ lastCall'.op = "secondMoverTimeoutClaim"
                  /\ lastTx'.caller = inst.secondMover
                  /\ timeoutElapsed(inst, now)
                  /\ paid' = [paid EXCEPT ![inst.secondMover] = @ + 2 * inst.stake]]_vars

\* the commitment was made by the client's createCommitment, the first mover
\* could not open it, and the second mover's timeout claim settled the instance
C28_Witness ==
    /\ inst.commitment \in {createCommitment(m, s).value :
                               m \in {Rock, Lizard}, s \in generateSalt}
    /\ lastCall.op = "secondMoverTimeoutClaim" /\ lastCall.result = "ok"
    /\ lastTx.caller = "bob"
    /\ inst.secondMove # Null /\ IsSettled
    /\ paid = PayTo("bob", 2)

\* C30: handleJoinGame sends play and its stake only to the address its
\* snapshot was loaded from.  loadGameInfo stores a snapshot only for the
\* address of the instance, so a play that handleJoinGame sends goes to that
\* address and no stake goes astray.
C30_PlayGoesWhereInfoWasLoaded ==
    [][(Called /\ lastCall'.op = "handleJoinGame" /\ lastCall'.sent) =>
          /\ gameInfo.loaded
          /\ gjAddress = GameAddress
          /\ stray' = stray]_vars

\* the snapshot was loaded at the instance, the address field was edited, and
\* the stake of the snapshot went to the edited address
C30_StakeSentToEditedAddress ==
    /\ lastCall = [op |-> "handleJoinGame", result |-> "NoContract", sent |-> TRUE]
    /\ gjAddress = OtherAddress
    /\ wallet = inst.secondMover
    /\ lastTx.caller = wallet /\ lastTx.value = inst.stake
    /\ stray[wallet] >= inst.stake
    /\ inst.secondMove = Null

(***************************************************************************)
(* Claims about a snapshot that the ledger has overtaken                   *)
(* (checked under SpecStatus)                                              *)
(***************************************************************************)
\* C31: the timeout call that callTimeout issues matches the phase and the
\* deadline of the instance at the moment the call is ordered: j2Timeout
\* reaches the instance only while the second move is awaited, j1Timeout only
\* while the reveal is awaited, and either only after the interval has
\* elapsed since the last action, also when a join or a settlement was
\* ordered after loadGameState.
C31_TimeoutCallMatchesLedgerPhase ==
    /\ [][(Issued("callTimeout.j2Timeout") /\ gsAddress = GameAddress) =>
            /\ phase(inst) = "AwaitingSecondMove"
            /\ timeoutElapsed(inst, now)]_vars
    /\ [][(Issued("callTimeout.j1Timeout") /\ gsAddress = GameAddress) =>
            /\ phase(inst) = "AwaitingReveal"
            /\ timeoutElapsed(inst, now)]_vars

\* the first mover's snapshot shows no second move and a deadline passed, the
\* second mover has joined since, and the claim of the first mover was sent
\* to the instance, which awaits the reveal and rejected it
C31_StaleClaimIssued ==
    /\ lastCall = [op |-> "callTimeout.j2Timeout", result |-> "InvalidPhase",
                   sent |-> TRUE]
    /\ gsAddress = GameAddress
    /\ wallet = inst.firstMover
    /\ gameState.loaded /\ gameState.c2 = Null /\ gameState.canTimeout
    /\ inst.secondMove # Null /\ inst.stake > 0

(***************************************************************************)
(* Claims about the rps_secret backup (checked under SpecSecret)           *)
(***************************************************************************)
\* C32: once a game is deployed, the rps_secret backup holds the move and the
\* salt of that game: createCommitment of its move and salt is the commitment
\* on the ledger, whatever GameCreation does afterwards, and the move and
\* salt that handleLoadFromStorage loads are that pair.
C32_BackupMatchesDeployedGame ==
    /\ [](inst.created =>
            /\ rpsSecret # NoFile
            /\ createCommitment(jsonParse(rpsSecret.text).move,
                                jsonParse(rpsSecret.text).salt)
                  = Ok(inst.commitment))
    /\ [][(/\ Called /\ lastCall'.op = "handleLoadFromStorage"
            /\ lastCall'.result = "ok" /\ inst.created) =>
            createCommitment(grMove', grSalt') = Ok(inst.commitment)]_vars

\* a game was deployed with one move, a salt was generated afterwards for
\* another move, and handleLoadFromStorage loaded the pair of the later salt,
\* whose commitment is not the one on the ledger
C32_BackupOverwritten ==
    /\ inst.created /\ inst.stake > 0
    /\ \E g \in rpsGames :
          /\ g.commitment = inst.commitment
          /\ g.move = Rock
    /\ lastCall.op = "handleLoadFromStorage" /\ lastCall.result = "ok"
    /\ grMove = Paper /\ grSalt \in SecretSalts
    /\ jsonParse(rpsSecret.text).move = Paper
    /\ createCommitment(grMove, grSalt) # Ok(inst.commitment)

(***************************************************************************)
(* Claims about revealing what createCommitment committed to               *)
(* (checked under SpecRevealForm)                                          *)
(***************************************************************************)
\* C33: whenever the fields of GameReveal hold a move in 1..5 and a salt,
\* not the empty text, that createCommitment accepts, the salt of numeric
\* value zero included,
\* handleReveal sends the reveal with that move and the numeric value of
\* that salt instead of rejecting the input.
C33_EveryCommitmentCanBeRevealed ==
    [][(/\ Called /\ lastCall'.op = "handleReveal"
        /\ grMove \in Moves
        /\ grSalt # <<>>
        /\ createCommitment(grMove, grSalt).ok) =>
          /\ lastCall'.sent
          /\ lastTx'.move = grMove
          /\ lastTx'.secret = BigInt(saltCleanOf(grSalt))]_vars

\* the instance holds createCommitment of Rock and the zero salt, the second
\* mover has joined, the fields hold that move and salt, and handleReveal
\* rejected them without sending
C33_ZeroSaltRejected ==
    /\ grMove = Rock /\ grSalt = Prefix0x \o Zeros(64)
    /\ grSalt \in generateSalt
    /\ createCommitment(grMove, grSalt) = Ok(inst.commitment)
    /\ inst.secondMove # Null /\ inst.stake > 0
    /\ lastCall = [op |-> "handleReveal", result |-> "InvalidSalt", sent |-> FALSE]

====
